---- MODULE Spec2Model ----
(***************************************************************************)
(* Metadata store core of cubestore (rust/cubestore/src/metastore/mod.rs). *)
(*                                                                         *)
(* The model has three layers, as the source has:                          *)
(*   - the KV engine (db, latest_seq, updates): atomic batched writes,     *)
(*     point gets, prefix scans, a sequence-numbered change feed;          *)
(*   - the generic table engine (RocksTable): insert / update / delete     *)
(*     over a primary table and its secondary indexes, staged in a         *)
(*     BatchPipe, and RocksMetaStore::write_operation that commits it;     *)
(*   - the durability pipeline (run_upload, upload_check_point,            *)
(*     load_from_remote) against a remote blob store.                      *)
(*                                                                         *)
(* Callers are concurrent tasks.  A closure handed to write_operation runs *)
(* on the blocking pool; every access it makes to the DB handle is one     *)
(* atomic step of the model, and steps of different callers interleave.    *)
(***************************************************************************)
EXTENDS Integers, Sequences, FiniteSets, TLC

\* ---------------------------------------------------------------- bounds
\* Callers start no new write operation once the KV engine's sequence
\* number is MaxSeq above what it was when the store was opened.
MaxSeq == 3
\* Row ids the by-id entry points are called with: 1..MaxRowId.
MaxRowId == 2
\* The same cap for the runs with a single caller, which are small enough
\* for two inserts, a rename and one more operation to fit.
MaxSeqOne == 6
\* The same cap for the runs with the uploading task and the clock.
MaxSeqDur == 2
\* The clock, in seconds, stops at MaxNow.
MaxNow == 183
\* The same cap for the runs of create_table, whose inserts take a sequence
\* number each besides the one of the batch.
MaxSeqTable == 7

\* Secondary keys handed to RowKey::to_bytes have at most MaxKeyLen bytes.
MaxKeyLen == 2

Procs == {"p1", "p2"}
SchemaNames == {"a", "b"}
Listeners == <<"l1", "l2">>

VARIABLES
    db,                   \* KV engine: RowKey -> value
    latest_seq,           \* DB::latest_sequence_number()
    updates,              \* change feed still readable by get_updates_since:
                          \*   sequence of [seq, entries]
    pc,                   \* per caller: position inside write_operation
    loc,                  \* per caller: the call, its BatchPipe, its result
    received,             \* per listener: events delivered, in order
    closed,               \* listeners whose channel has no receiver
    issued,               \* history: <<table_id, row_id>> of committed inserts
    callers,              \* the callers that issue operations in this run
    workload,             \* the calls they issue
    seq_cap,              \* no write operation begins once latest_seq has reached it
    last_upload_seq,      \* RocksMetaStore.last_upload_seq
    last_check_seq,       \* RocksMetaStore.last_check_seq
    last_checkpoint_time, \* RocksMetaStore.last_checkpoint_time, in seconds
    now,                  \* SystemTime::now(), in seconds
    remote,               \* the remote file system: pointer, snapshots, logs
    upc,                  \* the uploading task's position in run_upload
    uloc,                 \* the uploading task's locals
    phase,                \* "running", "killed", or "recovered"
    killed,               \* history: the store at the moment of the kill
    synced_seq,           \* history: last_db_seq of the last run_upload that
                          \*   returned Ok, -1 when there is none
    upload_loop_enabled,  \* RocksMetaStore.upload_loop_enabled
    codec                 \* a caller of RowKey::to_bytes and from_bytes: the key,
                          \*   its bytes, and the key read back

store == <<db, latest_seq, updates>>
dur == <<last_upload_seq, last_check_seq, last_checkpoint_time, now, remote,
         upc, uloc, phase, killed, synced_seq, upload_loop_enabled>>
env == <<callers, workload, seq_cap, codec, closed, dur>>

vars == <<db, latest_seq, updates, pc, loc, received, issued, callers, workload, seq_cap, codec, closed,
          last_upload_seq, last_check_seq, last_checkpoint_time, now, remote,
          upc, uloc, phase, killed, synced_seq, upload_loop_enabled>>

\* ------------------------------------------------------------ key space
\* enum TableId
TableId ==
    [Schemas |-> 256, Tables |-> 512, Indexes |-> 768, Partitions |-> 1024,
     Chunks |-> 1280, WALs |-> 1536, Jobs |-> 1792]

\* enum RowKey: Table(TableId, u64) | Sequence(TableId) |
\*              SecondaryIndex(IndexId, SecondaryKey, u64)
TableKey(table_id, row_id) == <<"Table", table_id, row_id>>
SequenceKey(table_id) == <<"Sequence", table_id>>
SecondaryIndexKey(iid, hash, row_id) == <<"SecondaryIndex", iid, <<hash>>, row_id>>

\* RocksTable::index_id
index_id(table_id, index_num) == table_id + index_num

\* ------------------------------------------------------- secondary indexes
\* The secondary indexes each entity declares: local number and uniqueness.
indexes(table_id) ==
    CASE table_id = TableId.Schemas    -> << [id |-> 1, unique |-> TRUE] >>
      [] table_id = TableId.Tables     -> << [id |-> 1, unique |-> TRUE] >>
      [] table_id = TableId.Indexes    -> << [id |-> 1, unique |-> FALSE],
                                             [id |-> 2, unique |-> TRUE] >>
      [] table_id = TableId.Partitions -> << [id |-> 1, unique |-> FALSE] >>
      [] table_id = TableId.Chunks     -> << [id |-> 1, unique |-> FALSE] >>
      [] table_id = TableId.Jobs       -> << [id |-> 1, unique |-> TRUE],
                                             [id |-> 2, unique |-> FALSE] >>
      [] OTHER -> << >>

\* UTF-8 bytes of the names the model uses.
StrBytes(s) ==
    CASE s = "a" -> <<97>>
      [] s = "b" -> <<98>>
      [] s = "c" -> <<99>>
      [] s = "default" -> <<100>>

\* Big-endian bytes of a u64 key field (ids stay below 256 in the model, so
\* only the last byte is non-zero and is the one kept).
U64Bytes(n) == <<n % 256>>

\* BaseRocksSecondaryIndex::index_key_by = key_to_bytes(typed_key_by(row))
index_key_by(table_id, index_num, row) ==
    CASE table_id = TableId.Schemas    -> StrBytes(row.name)
      [] table_id = TableId.Tables     -> U64Bytes(row.schema_id) \o StrBytes(row.table_name)
      [] table_id = TableId.Indexes    ->
            IF index_num = 1
            THEN U64Bytes(row.table_id)
            ELSE U64Bytes(row.table_id) \o StrBytes(row.name)
      [] table_id = TableId.Partitions -> U64Bytes(row.index_id)
      [] table_id = TableId.Chunks     -> U64Bytes(row.partition_id)
      [] table_id = TableId.Jobs       ->
            IF index_num = 1
            THEN U64Bytes(row.row_reference) \o U64Bytes(row.job_type)
            ELSE IF row.status = <<"Scheduled">>
                 THEN <<1>> \o StrBytes(row.shard_server)
                 ELSE <<0>>

RECURSIVE SumBytes(_)
SumBytes(bs) == IF bs = <<>> THEN 0 ELSE Head(bs) + SumBytes(Tail(bs))

\* BaseRocksSecondaryIndex::hash_bytes: DefaultHasher over the key bytes.
\* The 64-bit hash is folded to one bit, so that distinct keys can collide.
hash_bytes(key_bytes) == SumBytes(key_bytes) % 2

\* BaseRocksSecondaryIndex::key_hash
key_hash(table_id, index_num, row) ==
    hash_bytes(index_key_by(table_id, index_num, row))

\* The caller of the key codec has no key in hand.
NoCodec == [pos |-> "idle", key |-> <<>>, bytes |-> <<>>, out |-> <<>>]

\* ------------------------------------------------------------ KV engine
EmptyDb == [k \in {} |-> 0]

Put(key, val) == <<"Put", key, val>>
Delete(key) == <<"Delete", key>>

\* One entry of a WriteBatch applied to the store.
apply_entry(d, e) ==
    IF e[1] = "Put"
    THEN [k \in (DOMAIN d) \cup {e[2]} |-> IF k = e[2] THEN e[3] ELSE d[k]]
    ELSE [k \in (DOMAIN d) \ {e[2]} |-> d[k]]

RECURSIVE apply_entries(_, _)
\* DB::write(batch): the entries in order, atomically.
apply_entries(d, es) ==
    IF es = <<>> THEN d ELSE apply_entries(apply_entry(d, Head(es)), Tail(es))

RECURSIVE apply_batches(_, _)
\* A sequence of batches written one after the other.
apply_batches(d, bs) ==
    IF bs = <<>> THEN d ELSE apply_batches(apply_entries(d, Head(bs)), Tail(bs))

RECURSIVE SetToSortedSeq(_)
SetToSortedSeq(S) ==
    IF S = {} THEN <<>>
    ELSE LET m == CHOOSE x \in S : \A y \in S : x <= y
         IN <<m>> \o SetToSortedSeq(S \ {m})

\* ---------------------------------------------------------- table engine
\* RocksTable::get_row (present / content)
has_row(d, table_id, row_id) == TableKey(table_id, row_id) \in DOMAIN d
get_row(d, table_id, row_id) == d[TableKey(table_id, row_id)]

RECURSIVE LexLess(_, _)
\* Byte-wise order of two strings.
LexLess(a, b) ==
    IF a = <<>> THEN b # <<>>
    ELSE IF b = <<>> THEN FALSE
    ELSE IF Head(a) # Head(b) THEN Head(a) < Head(b)
    ELSE LexLess(Tail(a), Tail(b))

\* RowKey::to_bytes: the kind in one byte, the table or index id as a
\* big-endian u32, then eight zero bytes and the row id as a big-endian u64,
\* or the secondary key's bytes and the row id.
to_bytes(key) ==
    LET RECURSIVE write(_, _)
        write(n, width) ==
            IF width = 0 THEN <<>> ELSE write(n \div 256, width - 1) \o <<n % 256>>
    IN CASE key[1] = "Table" ->
              <<1>> \o write(key[2], 4) \o write(0, 8) \o write(key[3], 8)
         [] key[1] = "Sequence" ->
              <<2>> \o write(key[2], 4)
         [] key[1] = "SecondaryIndex" ->
              <<3>> \o write(key[2], 4) \o key[3] \o write(key[4], 8)

\* RowKey::from_bytes, mutated: the secondary key is taken up to the end of
\* the bytes, the row id included.
from_bytes_never(bytes) ==
    <<"SecondaryIndex", 0, SubSeq(bytes, 6, Len(bytes)), 0>>

\* RowKey::from_bytes: a cursor over the bytes; a read past their end, an
\* unknown kind, or fewer than 13 bytes of a secondary-index key panic.
from_bytes(bytes) ==
    LET RECURSIVE read(_, _, _)
        read(pos, width, acc) ==
            IF width = 0 THEN acc
            ELSE read(pos + 1, width - 1, acc * 256 + bytes[pos])
        sc_length == Len(bytes) - 13
    IN CASE bytes = <<>> -> <<"Panic">>
         [] bytes # <<>> /\ bytes[1] = 1 ->
              IF Len(bytes) < 21 THEN <<"Panic">>
              ELSE <<"Table", read(2, 4, 0), read(14, 8, 0)>>
         [] bytes # <<>> /\ bytes[1] = 2 ->
              IF Len(bytes) < 5 THEN <<"Panic">>
              ELSE <<"Sequence", read(2, 4, 0)>>
         [] bytes # <<>> /\ bytes[1] = 3 ->
              IF sc_length < 0 THEN <<"Panic">>
              ELSE <<"SecondaryIndex", read(2, 4, 0), SubSeq(bytes, 6, 5 + sc_length),
                     read(6 + sc_length, 8, 0)>>
         [] OTHER -> <<"Panic">>

\* TableScanIter::next, mutated: the table id of the key is not compared.
other_table_never(key, table_id) == FALSE

\* TableScanIter::next: `if table_id != self.table_id { return None; }`
other_table(key, table_id) == key[2] # table_id

\* RocksTable::all_rows: table_scan seeks the prefix of RowKey::Table(id, 0)
\* and TableScanIter yields rows in key order until a key is not a row key
\* or is a row key of another table.
all_rows(d, table_id) ==
    LET RECURSIVE next(_)
        next(keys) ==
            IF keys = {} THEN <<>>
            ELSE LET key == CHOOSE k \in keys :
                               \A o \in keys \ {k} : LexLess(to_bytes(k), to_bytes(o))
                 IN IF key[1] # "Table" \/ other_table(key, table_id)
                    THEN <<>>
                    ELSE <<[id |-> key[3], row |-> d[key]]>> \o next(keys \ {key})
    IN next({ k \in DOMAIN d :
                ~LexLess(to_bytes(k), SubSeq(to_bytes(TableKey(table_id, 0)), 1, 13)) })

\* get_row_from_index's comparison, mutated: entries under the hash are all
\* taken.
key_differs_never(value, secondary_key_val) == FALSE

\* get_row_from_index: the entry's stored value is not the looked-up key
\* (another length, or another byte somewhere); the entry is skipped.
key_differs(value, secondary_key_val) ==
    \/ Len(secondary_key_val) # Len(value)
    \/ \E i \in DOMAIN value : value[i] # secondary_key_val[i]

\* RocksTable::get_row_from_index: prefix scan of 3|index_id|hash, keeping the
\* entries whose stored value equals the looked-up key bytes; row ids in key
\* order.
get_row_from_index(d, table_id, secondary_id, secondary_key_val, secondary_key_hash) ==
    SetToSortedSeq({ k[4] : k \in { x \in DOMAIN d :
        /\ x[1] = "SecondaryIndex"
        /\ x[2] = index_id(table_id, secondary_id)
        /\ x[3] = <<secondary_key_hash>>
        /\ ~key_differs(d[x], secondary_key_val) } })

\* RocksTable::get_row_ids_by_index
get_row_ids_by_index(d, table_id, index_num, key_bytes) ==
    get_row_from_index(d, table_id, index_num, key_bytes, hash_bytes(key_bytes))

IsUnique(table_id, index_num) ==
    \E i \in DOMAIN indexes(table_id) :
        indexes(table_id)[i].id = index_num /\ indexes(table_id)[i].unique

\* RocksTable::get_rows_by_index: the ids, and whether the call fails (an
\* index entry without its row, or several rows under a unique index).
get_rows_by_index(d, table_id, index_num, key_bytes) ==
    LET ids == get_row_ids_by_index(d, table_id, index_num, key_bytes)
    IN [ids |-> ids,
        err |-> \/ \E i \in DOMAIN ids : ~has_row(d, table_id, ids[i])
                \/ (IsUnique(table_id, index_num) /\ Len(ids) > 1)]

\* The unique probe at the head of RocksTable::insert, mutated: never rejects.
insert_violates_unique_never(d, table_id, row) == FALSE

\* The unique probe at the head of RocksTable::insert: some unique index
\* already holds an entry with the row's key.
insert_violates_unique(d, table_id, row) ==
    \E i \in DOMAIN indexes(table_id) :
        LET ix == indexes(table_id)[i]
            val == index_key_by(table_id, ix.id, row)
        IN /\ ix.unique
           /\ Len(get_row_from_index(d, table_id, ix.id, val, hash_bytes(val))) > 0

\* RocksTable::insert_index_row: one entry per declared index.
insert_index_row(table_id, row, row_id) ==
    [i \in DOMAIN indexes(table_id) |->
        LET ix == indexes(table_id)[i]
        IN Put(SecondaryIndexKey(index_id(table_id, ix.id),
                                 key_hash(table_id, ix.id, row), row_id),
               index_key_by(table_id, ix.id, row))]

\* RocksTable::delete_index_row, mutated: no index entry is deleted.
delete_index_row_never(table_id, row, row_id) == <<>>

\* RocksTable::delete_index_row
delete_index_row(table_id, row, row_id) ==
    [i \in DOMAIN indexes(table_id) |->
        LET ix == indexes(table_id)[i]
        IN Delete(SecondaryIndexKey(index_id(table_id, ix.id),
                                    key_hash(table_id, ix.id, row), row_id))]

\* The sequence counter as next_table_seq reads it.
current_seq(d, table_id) ==
    IF SequenceKey(table_id) \in DOMAIN d THEN d[SequenceKey(table_id)] ELSE 0

\* A BatchPipe: the staged WriteBatch and the events.
EmptyPipe == [batch |-> <<>>, events |-> <<>>]

\* The part of RocksTable::insert after the id is allocated.
stage_insert(pipe, table_id, row, row_id) ==
    [batch  |-> pipe.batch \o << Put(TableKey(table_id, row_id), row) >>
                           \o insert_index_row(table_id, row, row_id),
     events |-> Append(pipe.events, <<"Insert", table_id, row_id>>)]

\* RocksTable::update: old index entries deleted, row put, new entries put.
update(pipe, table_id, row_id, new_row, old_row) ==
    [batch  |-> pipe.batch \o delete_index_row(table_id, old_row, row_id)
                           \o << Put(TableKey(table_id, row_id), new_row) >>
                           \o insert_index_row(table_id, new_row, row_id),
     events |-> Append(pipe.events, <<"Update", table_id, row_id>>)]

\* rocks_table_impl!: delete_event
delete_event(table_id, row_id, row) ==
    CASE table_id = TableId.Schemas    -> <<"DeleteSchema", row_id, row>>
      [] table_id = TableId.Tables     -> <<"DeleteTable", row_id, row>>
      [] table_id = TableId.Indexes    -> <<"DeleteIndex", row_id, row>>
      [] table_id = TableId.Partitions -> <<"DeletePartition", row_id, row>>
      [] table_id = TableId.Chunks     -> <<"DeleteChunk", row_id, row>>
      [] table_id = TableId.Jobs       -> <<"DeleteJob", row_id, row>>

\* RocksTable::delete, once the row has been read.
delete_never(pipe, table_id, row_id, row) ==
    [batch  |-> pipe.batch \o delete_index_row(table_id, row, row_id)
                           \o << Delete(TableKey(table_id, row_id)) >>,
     events |-> pipe.events \o << delete_event(table_id, row_id, row),
                                  <<"Delete", table_id, row_id>> >>]

delete(pipe, table_id, row_id, row) ==
    [batch  |-> pipe.batch \o delete_index_row(table_id, row, row_id)
                           \o << Delete(TableKey(table_id, row_id)) >>,
     events |-> pipe.events \o << <<"Delete", table_id, row_id>>,
                                  delete_event(table_id, row_id, row) >>]

\* ------------------------------------------------------------- callers
\* Calls are tuples, the entry point's name first:
\*   <<"create_schema", schema_name, if_not_exists>>
\*   <<"rename_schema", old_schema_name, new_schema_name>>
\*   <<"rename_schema_by_id", schema_id, new_schema_name>>
\*   <<"delete_schema", schema_name>>
\*   <<"delete_schema_by_id", schema_id>>
\*   <<"create_partition", partition>>
\*   <<"create_chunk", partition_id, row_count>>
\*   <<"swap_active_partitions", current_active, new_active,
\*     compacted_chunk_ids, new_active_min_max>>
SchemaCalls ==
    { <<"create_schema", n, b>> : n \in SchemaNames, b \in BOOLEAN }
    \cup { <<"rename_schema", n, m>> : n \in SchemaNames, m \in SchemaNames }
    \cup { <<"rename_schema_by_id", i, m>> : i \in 1..MaxRowId, m \in SchemaNames }
    \cup { <<"delete_schema", n>> : n \in SchemaNames }
    \cup { <<"delete_schema_by_id", i>> : i \in 1..MaxRowId }

Ok(id) == [ok |-> TRUE, err |-> "", id |-> id]
Err(kind) == [ok |-> FALSE, err |-> kind, id |-> 0]

\* A caller outside any operation.  call, pipe and res keep the last
\* operation's values until the next one starts; ins is the id the
\* operation's insert allocated (0: none), i the position of a closure in
\* the lists it loops over, db0 the store as it was when the operation
\* started.
NoCall ==
    [call |-> <<"none">>, pipe |-> EmptyPipe, res |-> Ok(0), cur |-> 0,
     ins |-> 0, i |-> 1, db0 |-> EmptyDb, read |-> <<>>, feed0 |-> 0]

InClosure(p) == pc[p] \in {"closure", "probe", "seq_get", "seq_put", "write"}

\* Option<T>: None is the empty sequence, Some(v) is <<v>>.
None == <<>>
Some(v) == <<v>>

\* Partition::new and the Partition rows callers hand to create_partition.
NewPartition(index_id_, active) ==
    [index_id |-> index_id_, parent_partition_id |-> None, min_value |-> None,
     max_value |-> None, active |-> active, main_table_row_count |-> 0]

\* Partition::to_active
to_active(partition, active) == [partition EXCEPT !.active = active]

\* Partition::update_min_max_and_row_count
update_min_max_and_row_count(partition, min_value, max_value, count) ==
    [partition EXCEPT !.min_value = min_value, !.max_value = max_value,
                      !.main_table_row_count = count]

\* Chunk::new
NewChunk(partition_id, row_count) ==
    [partition_id |-> partition_id, row_count |-> row_count,
     uploaded |-> FALSE, active |-> TRUE]

\* Chunk::deactivate
deactivate(chunk) == [chunk EXCEPT !.active = FALSE]

\* The table and the row a call inserts.
ins_table(call) ==
    CASE call[1] = "create_schema"    -> TableId.Schemas
      [] call[1] = "create_partition" -> TableId.Partitions
      [] call[1] = "create_chunk"     -> TableId.Chunks
      [] call[1] = "add_job"          -> TableId.Jobs

ins_row(call) ==
    CASE call[1] = "create_schema"    -> [name |-> call[2]]
      [] call[1] = "create_partition" -> call[2]
      [] call[1] = "create_chunk"     -> NewChunk(call[2], call[3])
      [] call[1] = "add_job"          -> call[2]

\* The closure ends with `kind` as its error.
Fails(p, kind) ==
    /\ loc' = [loc EXCEPT ![p].res = Err(kind)]
    /\ pc' = [pc EXCEPT ![p] = "write"]

\* The closure ends with Ok(id), its staged pipe being `pipe`.
Returns(p, pipe, id) ==
    /\ loc' = [loc EXCEPT ![p].res = Ok(id), ![p].pipe = pipe]
    /\ pc' = [pc EXCEPT ![p] = "write"]

\* write_operation, up to the start of the closure.  The guard returned by
\* self.db.write().await is a temporary of the statement that clones the
\* handle out of it: the lock is released before the closure is spawned, so
\* the step needs no lock to be free and leaves none held.
BeginWrite(p) ==
    /\ p \in callers
    /\ phase = "running"
    /\ pc[p] = "idle"
    /\ latest_seq < seq_cap
    /\ \E call \in workload :
          loc' = [loc EXCEPT ![p] = [NoCall EXCEPT !.call = call, !.db0 = db]]
    /\ pc' = [pc EXCEPT ![p] = "closure"]
    /\ UNCHANGED <<store, received, issued, env>>

\* create_schema's closure, before the insert.
CreateSchema(p) ==
    /\ pc[p] = "closure"
    /\ loc[p].call[1] = "create_schema"
    /\ LET found == get_rows_by_index(db, TableId.Schemas, 1, StrBytes(loc[p].call[2]))
       IN IF loc[p].call[3] /\ found.err
          THEN Fails(p, "Internal")
          ELSE IF loc[p].call[3] /\ found.ids # <<>>
          THEN Returns(p, loc[p].pipe, found.ids[1])
          ELSE /\ pc' = [pc EXCEPT ![p] = "probe"]
               /\ UNCHANGED loc
    /\ UNCHANGED <<store, received, issued, env>>

\* RocksTable::insert: the probe of the unique indexes.
InsertProbe(p) ==
    /\ pc[p] = "probe"
    /\ IF insert_violates_unique(db, ins_table(loc[p].call), ins_row(loc[p].call))
       THEN Fails(p, "UniqueViolation")
       ELSE /\ pc' = [pc EXCEPT ![p] = "seq_get"]
            /\ UNCHANGED loc
    /\ UNCHANGED <<store, received, issued, env>>

\* RocksTable::next_table_seq: db.get of the sequence counter.
NextTableSeqGet(p) ==
    /\ pc[p] = "seq_get"
    /\ loc' = [loc EXCEPT ![p].cur = current_seq(db, ins_table(loc[p].call))]
    /\ pc' = [pc EXCEPT ![p] = "seq_put"]
    /\ UNCHANGED <<store, received, issued, env>>

\* RocksTable::next_table_seq: db.put of the incremented counter, written to
\* the store directly (not staged), then the rest of insert: the row and its
\* index entries are staged in the pipe.
NextTableSeqPut(p) ==
    /\ pc[p] = "seq_put"
    /\ LET t == ins_table(loc[p].call)
           next_seq == loc[p].cur + 1
           e == Put(SequenceKey(t), next_seq)
       IN /\ db' = apply_entry(db, e)
          /\ latest_seq' = latest_seq + 1
          /\ updates' = Append(updates, [seq |-> latest_seq + 1, entries |-> <<e>>])
          /\ loc' = [loc EXCEPT
                ![p].pipe = stage_insert(loc[p].pipe, t, ins_row(loc[p].call), next_seq),
                ![p].ins = next_seq,
                ![p].res = Ok(next_seq)]
    /\ pc' = [pc EXCEPT ![p] = "write"]
    /\ UNCHANGED <<received, issued, env>>

\* RocksMetaStore::check_if_exists
check_if_exists(existing_keys_len) == existing_keys_len = 1

\* rename_schema's closure.
RenameSchema(p) ==
    /\ pc[p] = "closure"
    /\ loc[p].call[1] = "rename_schema"
    /\ LET t == TableId.Schemas
           existing_keys == get_row_ids_by_index(db, t, 1, StrBytes(loc[p].call[2]))
       IN IF ~check_if_exists(Len(existing_keys))
          THEN Fails(p, "User")
          ELSE IF ~has_row(db, t, existing_keys[1])
          THEN Fails(p, "Panic")
          ELSE Returns(p, update(loc[p].pipe, t, existing_keys[1],
                                 [name |-> loc[p].call[3]],
                                 get_row(db, t, existing_keys[1])),
                       existing_keys[1])
    /\ UNCHANGED <<store, received, issued, env>>

\* rename_schema_by_id's closure.
RenameSchemaById(p) ==
    /\ pc[p] = "closure"
    /\ loc[p].call[1] = "rename_schema_by_id"
    /\ LET t == TableId.Schemas
           schema_id == loc[p].call[2]
       IN IF ~has_row(db, t, schema_id)
          THEN Fails(p, "Panic")
          ELSE Returns(p, update(loc[p].pipe, t, schema_id,
                                 [name |-> loc[p].call[3]],
                                 get_row(db, t, schema_id)),
                       schema_id)
    /\ UNCHANGED <<store, received, issued, env>>

\* delete_schema's closure.
DeleteSchema(p) ==
    /\ pc[p] = "closure"
    /\ loc[p].call[1] = "delete_schema"
    /\ LET t == TableId.Schemas
           existing_keys == get_row_ids_by_index(db, t, 1, StrBytes(loc[p].call[2]))
       IN IF ~check_if_exists(Len(existing_keys))
          THEN Fails(p, "User")
          ELSE IF ~has_row(db, t, existing_keys[1])
          THEN Fails(p, "NotFound")
          ELSE Returns(p, delete(loc[p].pipe, t, existing_keys[1],
                                 get_row(db, t, existing_keys[1])),
                       existing_keys[1])
    /\ UNCHANGED <<store, received, issued, env>>

\* delete_schema_by_id's closure.
DeleteSchemaById(p) ==
    /\ pc[p] = "closure"
    /\ loc[p].call[1] = "delete_schema_by_id"
    /\ LET t == TableId.Schemas
           schema_id == loc[p].call[2]
       IN IF ~has_row(db, t, schema_id)
          THEN Fails(p, "NotFound")
          ELSE Returns(p, delete(loc[p].pipe, t, schema_id, get_row(db, t, schema_id)),
                       schema_id)
    /\ UNCHANGED <<store, received, issued, env>>

\* create_partition's and create_chunk's closures: the insert, at once.
CreatePartitionOrChunk(p) ==
    /\ pc[p] = "closure"
    /\ loc[p].call[1] \in {"create_partition", "create_chunk"}
    /\ pc' = [pc EXCEPT ![p] = "probe"]
    /\ UNCHANGED <<store, loc, received, issued, env>>

Min(a, b) == IF a < b THEN a ELSE b

\* swap_active_partitions: the lengths of its three loops.  The second
\* loop runs over new_active zipped with new_active_min_max.
SwapLens(call) == <<Len(call[2]), Min(Len(call[3]), Len(call[5])), Len(call[4])>>

\* The closure has worked through positions 1..i-1 of its lists.
SwapStep(p, pipe) ==
    /\ loc' = [loc EXCEPT ![p].pipe = pipe, ![p].i = loc[p].i + 1]
    /\ UNCHANGED pc

\* swap_active_partitions, first loop: one current partition is read,
\* checked to be active, and its deactivation staged.
SwapCurrent(p) ==
    /\ pc[p] = "closure"
    /\ loc[p].call[1] = "swap_active_partitions"
    /\ loc[p].i <= SwapLens(loc[p].call)[1]
    /\ LET t == TableId.Partitions
           current == loc[p].call[2][loc[p].i]
       IN IF ~has_row(db, t, current)
          THEN Fails(p, "Internal")
          ELSE IF ~get_row(db, t, current).active
          THEN Fails(p, "Internal")
          ELSE SwapStep(p, update(loc[p].pipe, t, current,
                                  to_active(get_row(db, t, current), FALSE),
                                  get_row(db, t, current)))
    /\ UNCHANGED <<store, received, issued, env>>

\* swap_active_partitions, second loop: one new partition is read, checked
\* to be inactive, and its activation with min, max and row count staged.
SwapNew(p) ==
    /\ pc[p] = "closure"
    /\ loc[p].call[1] = "swap_active_partitions"
    /\ loc[p].i > SwapLens(loc[p].call)[1]
    /\ loc[p].i <= SwapLens(loc[p].call)[1] + SwapLens(loc[p].call)[2]
    /\ LET t == TableId.Partitions
           j == loc[p].i - SwapLens(loc[p].call)[1]
           new == loc[p].call[3][j]
           count == loc[p].call[5][j][1]
           min_value == loc[p].call[5][j][2][1]
           max_value == loc[p].call[5][j][2][2]
       IN IF ~has_row(db, t, new)
          THEN Fails(p, "Internal")
          ELSE IF get_row(db, t, new).active
          THEN Fails(p, "Internal")
          ELSE SwapStep(p, update(loc[p].pipe, t, new,
                                  update_min_max_and_row_count(
                                      to_active(get_row(db, t, new), TRUE),
                                      min_value, max_value, count),
                                  get_row(db, t, new)))
    /\ UNCHANGED <<store, received, issued, env>>

\* swap_active_partitions, third loop: update_with_fn deactivates one chunk.
SwapChunk(p) ==
    /\ pc[p] = "closure"
    /\ loc[p].call[1] = "swap_active_partitions"
    /\ loc[p].i > SwapLens(loc[p].call)[1] + SwapLens(loc[p].call)[2]
    /\ loc[p].i <= SwapLens(loc[p].call)[1] + SwapLens(loc[p].call)[2]
                      + SwapLens(loc[p].call)[3]
    /\ LET t == TableId.Chunks
           j == loc[p].i - SwapLens(loc[p].call)[1] - SwapLens(loc[p].call)[2]
           chunk_id == loc[p].call[4][j]
       IN IF ~has_row(db, t, chunk_id)
          THEN Fails(p, "NotFound")
          ELSE SwapStep(p, update(loc[p].pipe, t, chunk_id,
                                  deactivate(get_row(db, t, chunk_id)),
                                  get_row(db, t, chunk_id)))
    /\ UNCHANGED <<store, received, issued, env>>

\* swap_active_partitions: the loops are done, the closure returns Ok(()).
SwapReturn(p) ==
    /\ pc[p] = "closure"
    /\ loc[p].call[1] = "swap_active_partitions"
    /\ loc[p].i > SwapLens(loc[p].call)[1] + SwapLens(loc[p].call)[2]
                     + SwapLens(loc[p].call)[3]
    /\ Returns(p, loc[p].pipe, 0)
    /\ UNCHANGED <<store, received, issued, env>>

\* -------------------------------------------------------------- tables
\* RocksTable::insert inside a closure that inserts several rows.  acc holds
\* the store as the closure sees it (d), the sequence counters it has put
\* into it (puts), the pipe, the ids given so far and the first error.  The
\* probe reads d, which has the counters but none of the rows staged in the
\* pipe.
insert(acc, table_id, row) ==
    IF acc.err # "" THEN acc
    ELSE IF insert_violates_unique(acc.d, table_id, row)
    THEN [acc EXCEPT !.err = "UniqueViolation"]
    ELSE LET next_seq == current_seq(acc.d, table_id) + 1
             e == Put(SequenceKey(table_id), next_seq)
         IN [d    |-> apply_entry(acc.d, e),
             puts |-> Append(acc.puts, e),
             pipe |-> stage_insert(acc.pipe, table_id, row, next_seq),
             ids  |-> Append(acc.ids, next_seq),
             err  |-> ""]

\* create_table: the columns of the index of one definition.  partition()
\* splits the table's columns, in the table's order, into those the
\* definition names and the others; replace_index numbers them from 0.
index_columns(index_cols, def_columns) ==
    LET named(c) == \E k \in DOMAIN def_columns : def_columns[k] = c.name
        unnamed(c) == ~named(c)
        sorted == SelectSeq(index_cols, named)
        all == sorted \o SelectSeq(index_cols, unnamed)
    IN [columns |-> [i \in DOMAIN all |-> [all[i] EXCEPT !.column_index = i - 1]],
        sort_key_size |-> Len(sorted)]

\* Index::new and Partition::new as create_table inserts them: the index,
\* then its first partition (not active, no bounds).
index_with_partition(acc, name, table_id, cols) ==
    LET with_index == insert(acc, TableId.Indexes,
                             [name |-> name, table_id |-> table_id,
                              columns |-> cols.columns,
                              sort_key_size |-> cols.sort_key_size])
    IN IF with_index.err # "" THEN with_index
       ELSE insert(with_index, TableId.Partitions,
                   NewPartition(with_index.ids[Len(with_index.ids)], FALSE))

RECURSIVE user_indexes(_, _, _, _)
\* create_table: the loop over the index definitions.
user_indexes(acc, table_id, index_cols, defs) ==
    IF defs = <<>> THEN acc
    ELSE user_indexes(index_with_partition(acc, Head(defs).name, table_id,
                                           index_columns(index_cols, Head(defs).columns)),
                      table_id, index_cols, Tail(defs))

\* create_table's closure.  Every sequence counter it has put stays in the
\* store, whether the closure succeeds or fails.
CreateTable(p) ==
    /\ pc[p] = "closure"
    /\ loc[p].call[1] = "create_table"
    /\ LET call == loc[p].call
           schema == get_rows_by_index(db, TableId.Schemas, 1, StrBytes(call[2]))
           start == [d |-> db, puts |-> <<>>, pipe |-> loc[p].pipe, ids |-> <<>>,
                     err |-> IF schema.err \/ schema.ids = <<>> THEN "Internal" ELSE ""]
           table == insert(start, TableId.Tables,
                           [table_name |-> call[3], schema_id |-> schema.ids[1],
                            columns |-> call[4], location |-> None,
                            import_format |-> None])
           table_id == table.ids[1]
           defs == user_indexes(table, table_id, call[4], call[5])
           done == index_with_partition(defs, "default", table_id,
                                        [columns |-> call[4], sort_key_size |-> Len(call[4])])
           out == IF table.err # "" THEN table ELSE done
       IN /\ db' = out.d
          /\ latest_seq' = latest_seq + Len(out.puts)
          /\ updates' = updates \o [k \in DOMAIN out.puts |->
                                      [seq |-> latest_seq + k, entries |-> <<out.puts[k]>>]]
          /\ IF out.err # ""
             THEN Fails(p, out.err)
             ELSE Returns(p, out.pipe, table_id)
    /\ UNCHANGED <<received, issued, env>>

RECURSIVE cascade(_, _, _, _)
\* drop_table's nested loops over store d: for each row of `ids` at a level
\* (1 indexes, 2 partitions, 3 chunks), the rows of the next level that the
\* index on the parent id yields are deleted first, then the row itself.
\* acc is the pipe staged so far, and whether a lookup has failed.
cascade(acc, d, level, ids) ==
    IF ids = <<>> \/ acc.err THEN acc
    ELSE LET tables == <<TableId.Indexes, TableId.Partitions, TableId.Chunks>>
             id == Head(ids)
             kids == IF level < 3
                     THEN get_rows_by_index(d, tables[level + 1], 1, U64Bytes(id))
                     ELSE [ids |-> <<>>, err |-> FALSE]
             below == IF kids.err THEN [acc EXCEPT !.err = TRUE]
                      ELSE cascade(acc, d, level + 1, kids.ids)
             here == IF below.err THEN below
                     ELSE [below EXCEPT !.pipe = delete(below.pipe, tables[level], id,
                                                        get_row(d, tables[level], id))]
         IN cascade(here, d, level, Tail(ids))

\* drop_table's closure.
DropTable(p) ==
    /\ pc[p] = "closure"
    /\ loc[p].call[1] = "drop_table"
    /\ LET table_id == loc[p].call[2]
           found == get_rows_by_index(db, TableId.Indexes, 1, U64Bytes(table_id))
           staged == cascade([pipe |-> loc[p].pipe, err |-> found.err], db, 1, found.ids)
       IN IF staged.err
          THEN Fails(p, "Internal")
          ELSE IF ~has_row(db, TableId.Tables, table_id)
          THEN Fails(p, "NotFound")
          ELSE Returns(p, delete(staged.pipe, TableId.Tables, table_id,
                                 get_row(db, TableId.Tables, table_id)),
                       table_id)
    /\ UNCHANGED <<store, received, issued, env>>

\* get_partition_for_compaction once the partition has been read: the
\* lookup of its index in store d, and the check that it is active.
index_of_partition(partition, d) ==
    IF ~has_row(d, TableId.Indexes, partition.index_id)
    THEN [res |-> Err("IndexNotFound"), read |-> <<>>]
    ELSE IF ~partition.active
    THEN [res |-> Err("InactivePartition"), read |-> <<>>]
    ELSE [res |-> Ok(partition.index_id),
          read |-> <<partition, get_row(d, TableId.Indexes, partition.index_id)>>]

\* get_partition_for_compaction with both lookups made on store d.
partition_for_compaction(d, partition_id) ==
    IF ~has_row(d, TableId.Partitions, partition_id)
    THEN [res |-> Err("PartitionNotFound"), read |-> <<>>]
    ELSE index_of_partition(get_row(d, TableId.Partitions, partition_id), d)

\* read_operation running get_partition_for_compaction: the handle is
\* cloned out of the read lock, whose guard is a temporary of that statement,
\* and each of the closure's two lookups reads the store as it is when the
\* lookup is made.
GetPartitionForCompaction(p) ==
    /\ p \in callers
    /\ phase = "running"
    /\ \/ /\ pc[p] = "idle"
          /\ \E partition_id \in 1..MaxRowId :
                loc' = [loc EXCEPT ![p] =
                           [NoCall EXCEPT !.call = <<"get_partition_for_compaction",
                                                     partition_id>>,
                                          !.db0 = db, !.feed0 = Len(updates)]]
          /\ pc' = [pc EXCEPT ![p] = "read_partition"]
       \/ /\ pc[p] = "read_partition"
          /\ IF has_row(db, TableId.Partitions, loc[p].call[2])
             THEN /\ loc' = [loc EXCEPT ![p].read =
                                 <<get_row(db, TableId.Partitions, loc[p].call[2])>>]
                  /\ pc' = [pc EXCEPT ![p] = "read_index"]
             ELSE /\ loc' = [loc EXCEPT ![p].res = Err("PartitionNotFound")]
                  /\ pc' = [pc EXCEPT ![p] = "idle"]
       \/ /\ pc[p] = "read_index"
          /\ LET out == index_of_partition(loc[p].read[1], db)
             IN loc' = [loc EXCEPT ![p].res = out.res, ![p].read = out.read]
          /\ pc' = [pc EXCEPT ![p] = "idle"]
    /\ UNCHANGED <<store, received, issued, env>>

\* chunk_uploaded's and deactivate_chunk's closures: the row is read and its
\* update staged.
ChunkUploadedOrDeactivateChunk(p) ==
    /\ pc[p] = "closure"
    /\ loc[p].call[1] \in {"chunk_uploaded", "deactivate_chunk"}
    /\ LET t == TableId.Chunks
           chunk_id == loc[p].call[2]
           row == get_row(db, t, chunk_id)
       IN IF ~has_row(db, t, chunk_id)
          THEN Fails(p, "NotFound")
          ELSE Returns(p, update(loc[p].pipe, t, chunk_id,
                                 IF loc[p].call[1] = "chunk_uploaded"
                                 THEN [row EXCEPT !.uploaded = TRUE]
                                 ELSE deactivate(row),
                                 row),
                       chunk_id)
    /\ UNCHANGED <<store, received, issued, env>>

\* The result of get_chunks_by_partition without its filter.
get_chunks_by_partition_never(d, partition_id) ==
    LET rows == get_rows_by_index(d, TableId.Chunks, 1, U64Bytes(partition_id))
    IN IF rows.err THEN Err("Internal") ELSE [ok |-> TRUE, rows |-> rows.ids]

\* get_chunks_by_partition's closure on the store d: the ids of the rows of
\* the partition index that are uploaded and active, in index order.
get_chunks_by_partition(d, partition_id) ==
    LET rows == get_rows_by_index(d, TableId.Chunks, 1, U64Bytes(partition_id))
    IN IF rows.err
       THEN Err("Internal")
       ELSE [ok |-> TRUE,
             rows |-> SelectSeq(rows.ids,
                        LAMBDA c : /\ get_row(d, TableId.Chunks, c).uploaded
                                   /\ get_row(d, TableId.Chunks, c).active)]

\* ---------------------------------------------------------------- jobs
\* Job::new: a job on a row, of one job type, for a shard; Scheduled.
NewJob(row_reference, shard_server) ==
    [row_reference |-> row_reference, job_type |-> 1, status |-> <<"Scheduled">>,
     shard_server |-> shard_server, heart_beat |-> 0]

\* Job::start_processing
start_processing(job, node) ==
    [job EXCEPT !.status = <<"ProcessingBy", node>>, !.heart_beat = now]

\* add_job's check, mutated: a queued job is never found.
job_is_queued_never(d, job) == FALSE

\* add_job's check: the RowReference index has an entry for the job's
\* (row_reference, job_type).
job_is_queued(d, job) ==
    Len(get_row_ids_by_index(d, TableId.Jobs, 1,
                             index_key_by(TableId.Jobs, 1, job))) > 0

\* add_job's closure, before the insert; None is returned as id 0.
AddJob(p) ==
    /\ pc[p] = "closure"
    /\ loc[p].call[1] = "add_job"
    /\ IF job_is_queued(db, loc[p].call[2])
       THEN Returns(p, loc[p].pipe, 0)
       ELSE /\ pc' = [pc EXCEPT ![p] = "probe"]
            /\ UNCHANGED loc
    /\ UNCHANGED <<store, received, issued, env>>

\* delete_job's closure.
DeleteJob(p) ==
    /\ pc[p] = "closure"
    /\ loc[p].call[1] = "delete_job"
    /\ LET t == TableId.Jobs
           job_id == loc[p].call[2]
       IN IF ~has_row(db, t, job_id)
          THEN Fails(p, "NotFound")
          ELSE Returns(p, delete(loc[p].pipe, t, job_id, get_row(db, t, job_id)), job_id)
    /\ UNCHANGED <<store, received, issued, env>>

\* start_processing_job's closure: the first job the ByShard index yields
\* for Some(server_name) is taken; None is returned as id 0.
StartProcessingJob(p) ==
    /\ pc[p] = "closure"
    /\ loc[p].call[1] = "start_processing_job"
    /\ LET t == TableId.Jobs
           server_name == loc[p].call[2]
           rows == get_rows_by_index(db, t, 2, <<1>> \o StrBytes(server_name))
       IN IF rows.err
          THEN Fails(p, "Internal")
          ELSE IF rows.ids = <<>>
          THEN Returns(p, loc[p].pipe, 0)
          ELSE LET job == get_row(db, t, rows.ids[1])
               IN IF job.status[1] = "ProcessingBy"
                  THEN Fails(p, "Internal")
                  ELSE Returns(p, update(loc[p].pipe, t, rows.ids[1],
                                         start_processing(job, server_name), job),
                               rows.ids[1])
    /\ UNCHANGED <<store, received, issued, env>>

\* update_heart_beat's and update_status's closures: update_with_fn.
UpdateJob(p) ==
    /\ pc[p] = "closure"
    /\ loc[p].call[1] \in {"update_heart_beat", "update_status"}
    /\ LET t == TableId.Jobs
           job_id == loc[p].call[2]
           row == get_row(db, t, job_id)
       IN IF ~has_row(db, t, job_id)
          THEN Fails(p, "NotFound")
          ELSE Returns(p, update(loc[p].pipe, t, job_id,
                                 IF loc[p].call[1] = "update_status"
                                 THEN [row EXCEPT !.status = loc[p].call[3]]
                                 ELSE [row EXCEPT !.heart_beat = now],
                                 row),
                       job_id)
    /\ UNCHANGED <<store, received, issued, env>>

\* `let res = f(db.clone(), &mut batch)?;`, mutated: the error is ignored.
closure_returns_early_never(res) == FALSE

\* `let res = f(db.clone(), &mut batch)?;`: an error of the closure leaves
\* write_operation before batch_write_rows.
closure_returns_early(res) == ~res.ok

\* write_operation when the closure failed: the pipe is dropped.
ClosureFailed(p) ==
    /\ pc[p] = "write"
    /\ closure_returns_early(loc[p].res)
    /\ pc' = [pc EXCEPT ![p] = "idle"]
    /\ UNCHANGED <<store, loc, received, issued, env>>

\* BatchPipe::batch_write_rows: db.write(write_batch) succeeds.  An empty
\* batch writes nothing and takes no sequence number.
BatchWriteRows(p) ==
    /\ pc[p] = "write"
    /\ ~closure_returns_early(loc[p].res)
    /\ LET batch == loc[p].pipe.batch
       IN IF batch = <<>>
          THEN UNCHANGED <<db, latest_seq, updates>>
          ELSE /\ db' = apply_entries(db, batch)
               /\ latest_seq' = latest_seq + 1
               /\ updates' = Append(updates, [seq |-> latest_seq + 1, entries |-> batch])
    /\ issued' = IF loc[p].ins # 0
                 THEN Append(issued, <<ins_table(loc[p].call), loc[p].ins>>)
                 ELSE issued
    /\ pc' = [pc EXCEPT ![p] = "notify"]
    /\ UNCHANGED <<loc, received, env>>

\* BatchPipe::batch_write_rows: db.write(write_batch) returns an error; the
\* batch is not applied and write_operation returns the error.
BatchWriteFails(p) ==
    /\ pc[p] = "write"
    /\ ~closure_returns_early(loc[p].res)
    /\ loc[p].pipe.batch # <<>>
    /\ loc' = [loc EXCEPT ![p].res = Err("KvEngine")]
    /\ pc' = [pc EXCEPT ![p] = "idle"]
    /\ UNCHANGED <<store, received, issued, env>>

\* broadcast::Sender::send, mutated: a send never fails.
send_fails_never(l) == FALSE

\* broadcast::Sender::send returns an error when the channel has no
\* receiver.
send_fails(l) == l \in closed

\* write_operation after the commit: the listeners in order, for each one
\* the events in order; the `?` on send returns at the first send that
\* fails.
Broadcast(p) ==
    /\ pc[p] = "notify"
    /\ LET events == loc[p].pipe.events
           failing == { l \in DOMAIN Listeners : events # <<>> /\ send_fails(l) }
           sent(l) == \A k \in failing : l < k
       IN /\ received' = [l \in DOMAIN received |->
                            IF sent(l) THEN received[l] \o events ELSE received[l]]
          /\ loc' = IF failing = {} THEN loc
                    ELSE [loc EXCEPT ![p].res = Err("SendError")]
    /\ pc' = [pc EXCEPT ![p] = "idle"]
    /\ UNCHANGED <<store, issued, env>>

\* The last receiver of a listener's channel is dropped.
DropReceiver ==
    /\ \E l \in DOMAIN Listeners : closed' = closed \cup {l} /\ l \notin closed
    /\ UNCHANGED <<store, pc, loc, received, issued, callers, workload, seq_cap, codec, dur>>

\* ----------------------------------------------------------- durability
\* Seconds between checkpoints, and the age past which the retention step
\* deletes a remote snapshot or log.
CheckpointPeriod == 60
RetentionPeriod == 180

\* The clock advances by just over a checkpoint period at a time.
TickSteps == {CheckpointPeriod + 1}

\* The remote file system: `current` is the body of metastore-current,
\* `snaps[t]` the files of metastore-<t>/ (the engine's state and sequence
\* number when the checkpoint was created), `logs[<<t, min>>]` the entries
\* of metastore-<t>-logs/<min>.flex.
EmptyRemote ==
    [current |-> None, snaps |-> [t \in {} |-> 0], logs |-> [f \in {} |-> 0],
     partial |-> {}]

NoUpload == [last_db_seq |-> 0, min |-> 0, max |-> 0, serializer |-> <<>>, direct |-> FALSE]

\* DB::get_updates_since(seq): the batches with a higher sequence number.
get_updates_since(seq) == SelectSeq(updates, LAMBDA u : u.seq > seq)

RECURSIVE Concat(_)
\* write_batch.iterate(&mut serializer) over the batches, in order.
Concat(bs) == IF bs = <<>> THEN <<>> ELSE Head(bs) \o Concat(Tail(bs))

\* run_upload: last_check_seq and the DB's sequence number are sampled.
\* The wait for write_notify ends by notification or by timeout and
\* changes nothing.
RunUploadBegin ==
    /\ phase = "running"
    /\ upc = "idle"
    /\ uloc' = [NoUpload EXCEPT !.last_db_seq = latest_seq]
    /\ upc' = "updates"
    /\ UNCHANGED <<store, pc, loc, received, issued, callers, workload, seq_cap, codec, closed,
                   upload_loop_enabled,
                   last_upload_seq, last_check_seq, last_checkpoint_time, now,
                   remote, phase, killed, synced_seq>>

\* run_upload: the updates since last_upload_seq are serialized.
GetUpdatesSince ==
    /\ upc = "updates"
    /\ LET ups == get_updates_since(last_upload_seq)
           seq_numbers == { ups[i].seq : i \in DOMAIN ups }
       IN IF seq_numbers = {}
          THEN /\ upc' = "check"
               /\ UNCHANGED uloc
          ELSE /\ uloc' = [uloc EXCEPT
                     !.serializer = Concat([i \in DOMAIN ups |-> ups[i].entries]),
                     !.min = CHOOSE n \in seq_numbers : \A k \in seq_numbers : n <= k,
                     !.max = CHOOSE n \in seq_numbers : \A k \in seq_numbers : n >= k]
               /\ upc' = "log"
    /\ UNCHANGED <<store, pc, loc, received, issued, callers, workload, seq_cap, codec, closed,
                   upload_loop_enabled,
                   last_upload_seq, last_check_seq, last_checkpoint_time, now,
                   remote, phase, killed, synced_seq>>

\* run_upload, mutated: last_upload_seq advances to the DB's sequence number
\* of the moment instead of the highest one in the file.
UploadLog_never ==
    /\ upc = "log"
    /\ remote' = [remote EXCEPT
          !.logs = (<<last_checkpoint_time, uloc.min>> :> uloc.serializer) @@ @]
    /\ last_upload_seq' = latest_seq
    /\ upc' = "check"
    /\ UNCHANGED <<store, pc, loc, received, issued, callers, workload, seq_cap, codec, closed,
                   upload_loop_enabled,
                   last_check_seq, last_checkpoint_time, now, uloc, phase, killed,
                   synced_seq>>

\* run_upload: the log file is written and uploaded under the logs directory
\* of last_checkpoint_time, and last_upload_seq advances.
UploadLog ==
    /\ upc = "log"
    /\ remote' = [remote EXCEPT
          !.logs = (<<last_checkpoint_time, uloc.min>> :> uloc.serializer) @@ @]
    /\ last_upload_seq' = uloc.max
    /\ upc' = "check"
    /\ UNCHANGED <<store, pc, loc, received, issued, callers, workload, seq_cap, codec, closed,
                   upload_loop_enabled,
                   last_check_seq, last_checkpoint_time, now, uloc, phase, killed,
                   synced_seq>>

\* run_upload: a checkpoint is due when the last one is more than
\* CheckpointPeriod old; upload_check_point then sets last_checkpoint_time
\* before anything is uploaded.
CheckpointDue ==
    /\ upc = "check"
    /\ IF last_checkpoint_time + CheckpointPeriod < now
       THEN /\ last_checkpoint_time' = now
            /\ upc' = "snapshot"
       ELSE /\ upc' = "end"
            /\ UNCHANGED last_checkpoint_time
    /\ UNCHANGED <<store, pc, loc, received, issued, callers, workload, seq_cap, codec, closed,
                   upload_loop_enabled,
                   last_upload_seq, last_check_seq, now, remote, uloc, phase,
                   killed, synced_seq>>

\* upload_check_point called on its own, as tests::cold_start_test does,
\* at a later instant than the previous checkpoint.
UploadCheckPoint ==
    /\ phase = "running"
    /\ upc = "idle"
    /\ now > last_checkpoint_time
    /\ last_checkpoint_time' = now
    /\ uloc' = [NoUpload EXCEPT !.direct = TRUE]
    /\ upc' = "snapshot"
    /\ UNCHANGED <<store, pc, loc, received, issued, callers, workload, seq_cap, codec, closed,
                   upload_loop_enabled,
                   last_upload_seq, last_check_seq, now, remote, phase, killed,
                   synced_seq>>

\* upload_checkpoint: the engine's checkpoint is created and its files are
\* uploaded under metastore-<last_checkpoint_time>/.
UploadSnapshot ==
    /\ upc = "snapshot"
    /\ remote' = [remote EXCEPT
          !.snaps = (last_checkpoint_time :> [db |-> db, seq |-> latest_seq]) @@ @,
          !.partial = @ \ {last_checkpoint_time}]
    /\ upc' = "retention"
    /\ UNCHANGED <<store, pc, loc, received, issued, callers, workload, seq_cap, codec, closed,
                   upload_loop_enabled,
                   last_upload_seq, last_check_seq, last_checkpoint_time, now,
                   uloc, phase, killed, synced_seq>>

\* upload_checkpoint, mutated: the results of the uploads are not looked at.
UploadSnapshotFails_never ==
    /\ upc = "snapshot"
    /\ last_checkpoint_time \notin DOMAIN remote.snaps
    /\ remote' = [remote EXCEPT !.partial = @ \cup {last_checkpoint_time}]
    /\ upc' = "retention"
    /\ UNCHANGED <<store, pc, loc, received, issued, callers, workload, seq_cap, codec, closed,
                   upload_loop_enabled,
                   last_upload_seq, last_check_seq, last_checkpoint_time, now,
                   uloc, phase, killed, synced_seq>>

\* upload_checkpoint: the uploads of the files run together and one of them
\* fails; the files of the others stay in metastore-<last_checkpoint_time>/,
\* and the first error ends the call.
UploadSnapshotFails ==
    /\ upc = "snapshot"
    /\ last_checkpoint_time \notin DOMAIN remote.snaps
    /\ remote' = [remote EXCEPT !.partial = @ \cup {last_checkpoint_time}]
    /\ upc' = "idle"
    /\ uloc' = NoUpload
    /\ UNCHANGED <<store, pc, loc, received, issued, callers, workload, seq_cap, codec, closed,
                   upload_loop_enabled,
                   last_upload_seq, last_check_seq, last_checkpoint_time, now,
                   phase, killed, synced_seq>>

\* The retention filter of upload_checkpoint on a timestamp.
to_delete(millis) == now - millis > RetentionPeriod

\* upload_checkpoint: every snapshot and log file older than RetentionPeriod
\* is deleted.
RetentionDelete ==
    /\ upc = "retention"
    /\ remote' = [remote EXCEPT
          !.snaps = [t \in { x \in DOMAIN @ : ~to_delete(x) } |-> @[t]],
          !.logs = [f \in { x \in DOMAIN @ : ~to_delete(x[1]) } |-> @[f]],
          !.partial = { t \in @ : ~to_delete(t) }]
    /\ upc' = "pointer"
    /\ UNCHANGED <<store, pc, loc, received, issued, callers, workload, seq_cap, codec, closed,
                   upload_loop_enabled,
                   last_upload_seq, last_check_seq, last_checkpoint_time, now,
                   uloc, phase, killed, synced_seq>>

\* upload_checkpoint: metastore-current is written and uploaded.
UploadCurrent ==
    /\ upc = "pointer"
    /\ remote' = [remote EXCEPT !.current = Some(last_checkpoint_time)]
    /\ IF uloc.direct
       THEN upc' = "idle" /\ uloc' = NoUpload
       ELSE upc' = "end" /\ UNCHANGED uloc
    /\ UNCHANGED <<store, pc, loc, received, issued, callers, workload, seq_cap, codec, closed,
                   upload_loop_enabled,
                   last_upload_seq, last_check_seq, last_checkpoint_time, now,
                   phase, killed, synced_seq>>

\* An error of run_upload that ends the loop of its caller.
RemoteFails_never ==
    /\ upc \in {"log", "snapshot", "retention", "pointer"}
    /\ upc' = "returned"
    /\ uloc' = NoUpload
    /\ UNCHANGED <<store, pc, loc, received, issued, callers, workload, seq_cap, codec, closed,
                   upload_loop_enabled,
                   last_upload_seq, last_check_seq, last_checkpoint_time, now,
                   remote, phase, killed, synced_seq>>

\* A remote or file operation of run_upload or upload_checkpoint returns an
\* error, which `?` propagates: the call ends where it is.
RemoteFails ==
    /\ upc \in {"log", "snapshot", "retention", "pointer"}
    /\ upc' = "idle"
    /\ uloc' = NoUpload
    /\ UNCHANGED <<store, pc, loc, received, issued, callers, workload, seq_cap, codec, closed,
                   upload_loop_enabled,
                   last_upload_seq, last_check_seq, last_checkpoint_time, now,
                   remote, phase, killed, synced_seq>>

\* The loop of run_upload_loop without its test of the flag.
RunUploadLoop_never == RunUploadBegin

\* run_upload_loop, the head of an iteration: the loop returns when the flag
\* is false, and otherwise calls run_upload, which samples last_check_seq and
\* the DB's sequence number and waits for write_notify at most 5 seconds.
RunUploadLoop ==
    /\ phase = "running"
    /\ upc = "idle"
    /\ IF ~upload_loop_enabled
       THEN /\ upc' = "returned"
            /\ UNCHANGED uloc
       ELSE /\ uloc' = [NoUpload EXCEPT !.last_db_seq = latest_seq]
            /\ upc' = "updates"
    /\ UNCHANGED <<store, pc, loc, received, issued, callers, workload, seq_cap, codec, closed,
                   upload_loop_enabled,
                   last_upload_seq, last_check_seq, last_checkpoint_time, now,
                   remote, phase, killed, synced_seq>>

\* stop_processing_loops
StopProcessingLoops ==
    /\ phase = "running"
    /\ upload_loop_enabled' = FALSE
    /\ UNCHANGED <<store, pc, loc, received, issued, callers, workload, seq_cap, codec, closed,
                   last_upload_seq, last_check_seq, last_checkpoint_time, now,
                   remote, upc, uloc, phase, killed, synced_seq>>

\* run_upload returns Ok after setting last_check_seq.
RunUploadEnd ==
    /\ upc = "end"
    /\ last_check_seq' = uloc.last_db_seq
    /\ synced_seq' = uloc.last_db_seq
    /\ upc' = "idle"
    /\ uloc' = NoUpload
    /\ UNCHANGED <<store, pc, loc, received, issued, callers, workload, seq_cap, codec, closed,
                   upload_loop_enabled,
                   last_upload_seq, last_checkpoint_time, now, remote,
                   phase, killed>>

\* Time passes.
Tick ==
    /\ phase = "running"
    /\ \E d \in TickSteps :
          /\ now + d <= MaxNow
          /\ now' = now + d
    /\ UNCHANGED <<store, pc, loc, received, issued, callers, workload, seq_cap, codec, closed,
                   upload_loop_enabled,
                   last_upload_seq, last_check_seq, last_checkpoint_time, remote,
                   upc, uloc, phase, killed, synced_seq>>

\* The process is killed between write operations; the uploading task dies
\* with it, wherever it is.
Kill ==
    /\ phase = "running"
    /\ \A p \in Procs : pc[p] = "idle"
    /\ phase' = "killed"
    /\ killed' = [db |-> db, seq |-> latest_seq]
    /\ upc' = "idle"
    /\ uloc' = NoUpload
    /\ UNCHANGED <<store, pc, loc, received, issued, callers, workload, seq_cap, codec, closed,
                   upload_loop_enabled,
                   last_upload_seq, last_check_seq, last_checkpoint_time, now,
                   remote, synced_seq>>

RECURSIVE Digits(_)
\* The characters of format!("{}", n).
Digits(n) == IF n < 10 THEN <<48 + n>> ELSE Digits(n \div 10) \o <<48 + (n % 10)>>

\* The file name of a log, up to the extension.
log_name(min) == Digits(min) \o <<46>>

RECURSIVE list_logs(_)
\* remote_fs.list on a logs directory: the <min> of its files, in the order
\* of their names.
list_logs(mins) ==
    IF mins = {} THEN <<>>
    ELSE LET m == CHOOSE x \in mins :
                    \A y \in mins \ {x} : LexLess(log_name(x), log_name(y))
         IN <<m>> \o list_logs(mins \ {m})

\* The <min> of the log files of snapshot t in remote store r.
logs_of(r, t) == { f[2] : f \in { x \in DOMAIN r.logs : x[1] = t } }

\* The store load_from_remote builds from remote store r when the files of
\* snapshot t's logs are replayed in the order `files`.
replay(r, t, files) ==
    LET base == IF t \in DOMAIN r.snaps THEN r.snaps[t]
                ELSE [db |-> EmptyDb, seq |-> 0]
        batches == [i \in DOMAIN files |-> r.logs[<<t, files[i]>>]]
    IN [db |-> apply_batches(base.db, batches),
        seq |-> base.seq,
        updates |-> [i \in DOMAIN batches |->
                       [seq |-> base.seq + i, entries |-> batches[i]]]]

\* load_from_remote with the local directory absent.
load_from_remote(r) ==
    IF r.current = None
    THEN [db |-> EmptyDb, seq |-> 0, updates |-> <<>>]
    ELSE replay(r, r.current[1], list_logs(logs_of(r, r.current[1])))

\* The store is reopened through load_from_remote; the new RocksMetaStore is
\* constructed before the logs are replayed.
LoadFromRemote ==
    /\ phase = "killed"
    /\ LET m == load_from_remote(remote)
       IN /\ db' = m.db
          /\ updates' = m.updates
          /\ latest_seq' = m.seq + Len(m.updates)
          /\ last_upload_seq' = m.seq
          /\ last_check_seq' = m.seq
    /\ last_checkpoint_time' = now
    /\ upload_loop_enabled' = TRUE
    /\ phase' = "recovered"
    /\ UNCHANGED <<pc, loc, received, issued, callers, workload, seq_cap, codec, closed, now,
                   remote, upc, uloc, killed, synced_seq>>

\* ------------------------------------------------------- specifications
\* The callers' side of a store that was just opened on `d`, whose engine
\* is at sequence number `seq`.
InitOn(d, seq, budget) ==
    /\ db = d
    /\ latest_seq = seq
    /\ seq_cap = seq + budget
    /\ codec = NoCodec
    /\ updates = <<>>
    /\ pc = [p \in Procs |-> "idle"]
    /\ loc = [p \in Procs |-> NoCall]
    /\ received = [i \in DOMAIN Listeners |-> <<>>]
    /\ closed = {}
    /\ issued = <<>>
    /\ last_upload_seq = seq
    /\ last_check_seq = seq
    /\ last_checkpoint_time = 0
    /\ now = 0
    /\ remote = EmptyRemote
    /\ upc = "idle"
    /\ uloc = NoUpload
    /\ phase = "running"
    /\ killed = [db |-> EmptyDb, seq |-> 0]
    /\ synced_seq = -1
    /\ upload_loop_enabled = TRUE

SchemaOp(p) ==
    \/ CreateSchema(p)
    \/ RenameSchema(p)
    \/ RenameSchemaById(p)
    \/ DeleteSchema(p)
    \/ DeleteSchemaById(p)

PartitionOp(p) ==
    \/ CreatePartitionOrChunk(p)
    \/ SwapCurrent(p)
    \/ SwapNew(p)
    \/ SwapChunk(p)
    \/ SwapReturn(p)

WriteOperation(p) ==
    \/ BeginWrite(p)
    \/ InsertProbe(p)
    \/ NextTableSeqGet(p)
    \/ NextTableSeqPut(p)
    \/ ClosureFailed(p)
    \/ BatchWriteRows(p)
    \/ BatchWriteFails(p)
    \/ Broadcast(p)

\* Concurrent callers of the schema entry points, on a fresh directory.
Init ==
    /\ InitOn(EmptyDb, 0, MaxSeq)
    /\ callers = Procs
    /\ workload = SchemaCalls

Next == \E p \in Procs : WriteOperation(p) \/ SchemaOp(p)

Spec == Init /\ [][Next]_vars

\* One caller, which awaits each call before it issues the next.
InitSeq ==
    /\ InitOn(EmptyDb, 0, MaxSeqOne)
    /\ callers = {"p1"}
    /\ workload = SchemaCalls

SpecSeq == InitSeq /\ [][Next]_vars

\* The store of scenario S5 as an earlier run left it: partition 1 active,
\* partition 2 inactive, both of index 1, and chunk 1 of partition 1; each
\* insert took two sequence numbers.
SwapSeedBatches ==
    << <<Put(SequenceKey(TableId.Partitions), 1)>>,
       stage_insert(EmptyPipe, TableId.Partitions, NewPartition(1, TRUE), 1).batch,
       <<Put(SequenceKey(TableId.Partitions), 2)>>,
       stage_insert(EmptyPipe, TableId.Partitions, NewPartition(1, FALSE), 2).batch,
       <<Put(SequenceKey(TableId.Chunks), 1)>>,
       stage_insert(EmptyPipe, TableId.Chunks, NewChunk(1, 1), 1).batch >>

SwapCalls ==
    { <<"create_partition", NewPartition(1, a)>> : a \in BOOLEAN }
    \cup { <<"create_chunk", 1, 1>> }
    \cup { <<"swap_active_partitions", cur, new, chunks,
             [j \in DOMAIN new |-> <<42, <<Some(<<1>>), Some(<<9>>)>> >>] >> :
           cur \in {<<1>>, <<1, 2>>},
           new \in {<<2>>},
           chunks \in {<<1>>, <<1, 2>>} }

\* Concurrent callers of the partition and chunk entry points, on the
\* seeded store.
InitSwap ==
    /\ InitOn(apply_batches(EmptyDb, SwapSeedBatches), Len(SwapSeedBatches), MaxSeq)
    /\ callers = Procs
    /\ workload = SwapCalls

NextSwap == \E p \in Procs : WriteOperation(p) \/ PartitionOp(p)

SpecSwap == InitSwap /\ [][NextSwap]_vars

\* The local store an earlier run left behind: schema 1, created as "a" and
\* renamed six times, the engine at sequence number 8; nothing of it was
\* uploaded.
DurSeedBatches ==
    LET t == TableId.Schemas
        a == [name |-> "a"]
        b == [name |-> "b"]
        a_to_b == update(EmptyPipe, t, 1, b, a).batch
        b_to_a == update(EmptyPipe, t, 1, a, b).batch
    IN << <<Put(SequenceKey(t), 1)>>,
          stage_insert(EmptyPipe, t, a, 1).batch,
          a_to_b, b_to_a, a_to_b, b_to_a, a_to_b, b_to_a >>

DurCalls ==
    { <<"create_schema", "b", FALSE>> }
    \cup { <<"rename_schema_by_id", i, m>> : i \in 1..MaxRowId, m \in SchemaNames }

\* One caller, the uploading task, the clock, a kill and the reopening
\* from the remote store.
InitDur ==
    /\ InitOn(apply_batches(EmptyDb, DurSeedBatches), Len(DurSeedBatches), MaxSeqDur)
    /\ callers = {"p1"}
    /\ workload = DurCalls

RunUpload ==
    \/ RunUploadBegin
    \/ GetUpdatesSince
    \/ UploadLog
    \/ CheckpointDue
    \/ RunUploadEnd

UploadCheckpoint ==
    \/ UploadCheckPoint
    \/ UploadSnapshot
    \/ RetentionDelete
    \/ UploadCurrent

NextDur ==
    \/ \E p \in Procs : WriteOperation(p) \/ CreateSchema(p) \/ RenameSchemaById(p)
    \/ RunUpload
    \/ UploadCheckpoint
    \/ RemoteFails
    \/ Tick
    \/ Kill
    \/ LoadFromRemote

SpecDur == InitDur /\ [][NextDur]_vars

\* One caller of the partition and chunk entry points on the seeded store;
\* besides SwapCalls it passes a new_active list longer than
\* new_active_min_max, whose last id may or may not exist.
SwapSeqCalls ==
    SwapCalls
    \cup { <<"swap_active_partitions", <<1>>, <<2, 3>>, <<1>>,
             << <<42, <<Some(<<1>>), Some(<<9>>)>> >> >> >> }

InitSwapSeq ==
    /\ InitOn(apply_batches(EmptyDb, SwapSeedBatches), Len(SwapSeedBatches), MaxSeqOne)
    /\ callers = {"p1"}
    /\ workload = SwapSeqCalls

SpecSwapSeq == InitSwapSeq /\ [][NextSwap]_vars

\* The job queue: two rows to put jobs on, two shards.
JobCalls ==
    { <<"add_job", NewJob(r, "a")>> : r \in 1..2 }
    \cup { <<"start_processing_job", n>> : n \in {"a", "b"} }
    \cup { <<"update_status", 1, st>> : st \in {<<"Scheduled">>, <<"Completed">>} }
    \cup { <<"update_heart_beat", 1>>, <<"delete_job", 1>> }

JobOp(p) ==
    \/ AddJob(p)
    \/ DeleteJob(p)
    \/ StartProcessingJob(p)
    \/ UpdateJob(p)

NextJob == \E p \in Procs : WriteOperation(p) \/ JobOp(p)

\* Concurrent callers of the job queue, on a fresh directory.
InitJob ==
    /\ InitOn(EmptyDb, 0, MaxSeq)
    /\ callers = Procs
    /\ workload = JobCalls

SpecJob == InitJob /\ [][NextJob]_vars

\* One caller of the job queue.
InitJobSeq ==
    /\ InitOn(EmptyDb, 0, MaxSeqOne)
    /\ callers = {"p1"}
    /\ workload = JobCalls

SpecJobSeq == InitJobSeq /\ [][NextJob]_vars

\* One caller, and listeners whose receivers go away.
SpecListen == InitSeq /\ [][Next \/ DropReceiver]_vars


\* The store an earlier run left behind: schema 1 "a", its table 1 "a" with
\* the index 1 "default", whose partition 1 is active and has chunk 1.
DropSeedBatches ==
    << <<Put(SequenceKey(TableId.Schemas), 1)>>,
       stage_insert(EmptyPipe, TableId.Schemas, [name |-> "a"], 1).batch,
       <<Put(SequenceKey(TableId.Tables), 1)>>,
       <<Put(SequenceKey(TableId.Indexes), 1)>>,
       <<Put(SequenceKey(TableId.Partitions), 1)>>,
       stage_insert(
           stage_insert(
               stage_insert(EmptyPipe, TableId.Tables,
                            [table_name |-> "a", schema_id |-> 1], 1),
               TableId.Indexes, [name |-> "default", table_id |-> 1], 1),
           TableId.Partitions, NewPartition(1, FALSE), 1).batch,
       update(EmptyPipe, TableId.Partitions, 1, NewPartition(1, TRUE),
              NewPartition(1, FALSE)).batch,
       <<Put(SequenceKey(TableId.Chunks), 1)>>,
       stage_insert(EmptyPipe, TableId.Chunks, NewChunk(1, 1), 1).batch >>

DropCalls ==
    { <<"drop_table", t>> : t \in 1..MaxRowId }
    \cup { <<"create_partition", NewPartition(1, TRUE)>>, <<"create_chunk", 1, 1>> }

NextDrop ==
    \E p \in Procs :
        \/ WriteOperation(p)
        \/ CreatePartitionOrChunk(p)
        \/ DropTable(p)
        \/ GetPartitionForCompaction(p)

\* Concurrent callers of drop_table, of the partition and chunk inserts and
\* of get_partition_for_compaction, on the seeded store.
InitDrop ==
    /\ InitOn(apply_batches(EmptyDb, DropSeedBatches), Len(DropSeedBatches), MaxSeq)
    /\ callers = Procs
    /\ workload = DropCalls

SpecDrop == InitDrop /\ [][NextDrop]_vars


\* Tables of three columns in schema "a" or "b", without index definitions,
\* with one that names the third and the first column, or with one that is
\* named "default"; a schema "c", whose name has the hash of "a"; and the
\* operations that remove schemas and tables.
\* The columns are numbered from 0, as callers hand them over.
TableCalls ==
    { <<"create_table", n, "a",
        [i \in 1..3 |-> [name |-> <<"a", "b", "c">>[i], column_index |-> i - 1]],
        defs>> :
        n \in SchemaNames,
        defs \in { <<>>,
                   << [name |-> "b", columns |-> <<"c", "a">>] >>,
                   << [name |-> "default", columns |-> <<"b">>] >> } }
    \cup { <<"create_schema", "c", FALSE>>, <<"delete_schema", "a">>,
           <<"delete_schema_by_id", 1>>, <<"drop_table", 1>> }

NextTable ==
    \E p \in Procs :
        \/ WriteOperation(p)
        \/ CreateSchema(p)
        \/ DeleteSchema(p)
        \/ DeleteSchemaById(p)
        \/ CreateTable(p)
        \/ DropTable(p)

\* One caller of the table entry points, on a store that holds schema 1 "a".
InitTable ==
    /\ InitOn(apply_batches(EmptyDb, SubSeq(DropSeedBatches, 1, 2)), 2, MaxSeqTable)
    /\ callers = {"p1"}
    /\ workload = TableCalls

SpecTable == InitTable /\ [][NextTable]_vars


\* The chunk entry points on the seeded store: chunks of the partitions 1
\* and 3, whose index keys have one hash, uploaded and deactivated.
ChunkCalls ==
    { <<"create_chunk", partition_id, 1>> : partition_id \in {1, 3} }
    \cup { <<op, chunk_id>> : op \in {"chunk_uploaded", "deactivate_chunk"},
                              chunk_id \in 1..2 }

NextChunk ==
    \E p \in Procs :
        \/ WriteOperation(p)
        \/ CreatePartitionOrChunk(p)
        \/ ChunkUploadedOrDeactivateChunk(p)

\* Concurrent callers of the chunk entry points, on the seeded store.
InitChunk ==
    /\ InitOn(apply_batches(EmptyDb, SwapSeedBatches), Len(SwapSeedBatches), MaxSeq)
    /\ callers = Procs
    /\ workload = ChunkCalls

SpecChunk == InitChunk /\ [][NextChunk]_vars

\* The uploading task runs run_upload_loop, which stop_processing_loops may
\* stop at any moment, beside one caller and the clock.
\* An empty directory, opened one tick of the clock before MaxNow, with a
\* remote store that is empty or holds the checkpoint that an earlier run
\* published at time 0; one caller, who creates and renames schemas.
InitLoop ==
    /\ db = EmptyDb
    /\ latest_seq = 0
    /\ seq_cap = MaxSeqDur
    /\ updates = <<>>
    /\ pc = [p \in Procs |-> "idle"]
    /\ loc = [p \in Procs |-> NoCall]
    /\ received = [i \in DOMAIN Listeners |-> <<>>]
    /\ closed = {}
    /\ issued = <<>>
    /\ last_upload_seq = 0
    /\ last_check_seq = 0
    /\ now \in { MaxNow - d : d \in TickSteps }
    /\ last_checkpoint_time = now
    /\ remote \in { EmptyRemote,
                     [EmptyRemote EXCEPT !.current = Some(0),
                                         !.snaps = 0 :> [db |-> EmptyDb, seq |-> 0]] }
    /\ upc = "idle"
    /\ uloc = NoUpload
    /\ phase = "running"
    /\ killed = [db |-> EmptyDb, seq |-> 0]
    /\ synced_seq = -1
    /\ upload_loop_enabled = TRUE
    /\ codec = NoCodec
    /\ callers = {"p1"}
    /\ workload = DurCalls

NextLoop ==
    \/ \E p \in Procs : WriteOperation(p) \/ CreateSchema(p) \/ RenameSchemaById(p)
    \/ RunUploadLoop
    \/ GetUpdatesSince
    \/ UploadLog
    \/ CheckpointDue
    \/ RunUploadEnd
    \/ UploadSnapshot
    \/ UploadSnapshotFails
    \/ RetentionDelete
    \/ UploadCurrent
    \/ RemoteFails
    \/ Tick
    \/ StopProcessingLoops

\* The uploading task is a spawned task that the runtime keeps polling: each
\* of its steps is taken once it stays possible.  Its file and remote calls
\* return, with a result or with an error.
SpecLoop ==
    /\ InitLoop
    /\ [][NextLoop]_vars
    /\ WF_vars(RunUploadLoop)
    /\ WF_vars(GetUpdatesSince)
    /\ WF_vars(CheckpointDue)
    /\ WF_vars(RunUploadEnd)
    /\ WF_vars(UploadLog \/ UploadSnapshot \/ UploadSnapshotFails \/ RetentionDelete
                \/ UploadCurrent \/ RemoteFails)

\* A key of each kind is encoded: rows and counters of every table, index
\* entries whose secondary key is any byte string of at most MaxKeyLen bytes
\* (among them the kind tags and 255), ids below and above one byte.
ToBytes ==
    /\ codec.pos = "idle"
    /\ \E key \in
            { TableKey(t, r) : t \in { TableId[f] : f \in DOMAIN TableId }, r \in {0, 1, 255, 256, 65537} }
            \cup { SequenceKey(t) : t \in { TableId[f] : f \in DOMAIN TableId } }
            \cup { <<"SecondaryIndex", index_id(t, i), sk, r>> :
                     t \in {TableId.Schemas, TableId.Jobs}, i \in 1..2,
                     sk \in UNION { [1..n -> {0, 3, 255}] : n \in 0..MaxKeyLen },
                     r \in {0, 1, 256} } :
          codec' = [pos |-> "encoded", key |-> key, bytes |-> to_bytes(key), out |-> <<>>]
    /\ UNCHANGED <<store, pc, loc, received, issued, callers, workload, seq_cap, closed, dur>>

\* The bytes are decoded.
FromBytes ==
    /\ codec.pos = "encoded"
    /\ codec' = [codec EXCEPT !.pos = "decoded", !.out = from_bytes(codec.bytes)]
    /\ UNCHANGED <<store, pc, loc, received, issued, callers, workload, seq_cap, closed, dur>>

InitCodec ==
    /\ InitOn(EmptyDb, 0, 0)
    /\ callers = {}
    /\ workload = {}

NextCodec == ToBytes \/ FromBytes

SpecCodec == InitCodec /\ [][NextCodec]_vars

\* ----------------------------------------------------------- properties
\* Row ids stored in a table of store d.
StoredIds(d, table_id) ==
    { k[3] : k \in { x \in DOMAIN d : x[1] = "Table" /\ x[2] = table_id } }

\* Ids of the schema rows of store d named `name`.
SchemasNamed(d, name) ==
    { r \in StoredIds(d, TableId.Schemas) : get_row(d, TableId.Schemas, r).name = name }

\* C1: write operations are mutually exclusive: while one write_operation's
\* closure is between its start and the commit (or discard) of its batch, no
\* other write_operation's closure executes.
C1_WritesMutuallyExclusive ==
    \A p, q \in Procs : p # q => ~(InClosure(p) /\ InClosure(q))

\* C2: when the closure passed to write_operation returns an error, the step
\* that ends the operation applies none of the staged puts and deletes to
\* the KV store, takes no sequence number, delivers no event, and only an
\* operation whose closure succeeded ever reaches the broadcast.
C2_FailedClosureAppliesNothing ==
    /\ [](\A p \in Procs : pc[p] = "notify" => loc[p].res.ok)
    /\ [][\A p \in Procs :
            (pc[p] = "write" /\ ~loc[p].res.ok /\ pc'[p] # pc[p])
            => /\ pc'[p] = "idle"
               /\ db' = db
               /\ latest_seq' = latest_seq
               /\ updates' = updates
               /\ received' = received]_vars

\* C2 witness: a swap_active_partitions whose closure failed after it had
\* staged mutations and events has ended.
C2_Witness ==
    \E p \in Procs :
        /\ pc[p] = "idle"
        /\ loc[p].call[1] = "swap_active_partitions"
        /\ ~loc[p].res.ok
        /\ loc[p].pipe.batch # <<>>
        /\ loc[p].pipe.events # <<>>

\* C3: when a write operation that executed an insert is rolled back, the
\* table's sequence counter has its pre-operation value and nothing of the
\* operation is in the KV store.
C3_RollbackKeepsSequence ==
    \A p \in Procs :
        (pc[p] = "idle" /\ ~loc[p].res.ok /\ loc[p].ins # 0)
        => /\ current_seq(db, ins_table(loc[p].call))
                = current_seq(loc[p].db0, ins_table(loc[p].call))
           /\ db = loc[p].db0

\* C4: per table, every committed insert has a row id strictly greater than
\* the id of every insert committed before it; no id is handed out twice.
C4_IdsStrictlyIncreasing ==
    \A i, j \in DOMAIN issued :
        (i < j /\ issued[i][1] = issued[j][1]) => issued[i][2] < issued[j][2]

\* C5: in every reachable state, under every unique secondary index no two
\* stored rows have the same index key.
C5_UniqueIndexesHold ==
    \A t \in {TableId.Schemas, TableId.Partitions, TableId.Chunks} :
        \A i \in DOMAIN indexes(t) :
            indexes(t)[i].unique =>
                \A r1, r2 \in StoredIds(db, t) :
                    r1 # r2 =>
                        index_key_by(t, indexes(t)[i].id, get_row(db, t, r1))
                            # index_key_by(t, indexes(t)[i].id, get_row(db, t, r2))

\* C6: an insert into a table with a unique index (create_schema without
\* if_not_exists), issued as a write operation of its own after the
\* operation that stored a row with the same key, fails with UniqueViolation
\* and stores no row and no index entry; issued when no stored row has the
\* key, it is not rejected, and once committed its row is stored under
\* the id it returns.
C6_SecondInsertRejected ==
    \A p \in Procs :
        (pc[p] = "idle" /\ loc[p].call[1] = "create_schema" /\ ~loc[p].call[3])
        => IF SchemasNamed(loc[p].db0, loc[p].call[2]) # {}
           THEN loc[p].res = Err("UniqueViolation") /\ db = loc[p].db0
           ELSE /\ loc[p].res.err # "UniqueViolation"
                /\ loc[p].res.ok =>
                      /\ loc[p].res.id \notin StoredIds(loc[p].db0, TableId.Schemas)
                      /\ SchemasNamed(db, loc[p].call[2]) = {loc[p].res.id}

\* C6 witness: of two inserts of the same key, the first has been committed
\* and the second has just been rejected.
C6_Witness ==
    \E p \in Procs :
        /\ pc[p] = "idle"
        /\ loc[p].call[1] = "create_schema" /\ ~loc[p].call[3]
        /\ loc[p].res = Err("UniqueViolation")
        /\ SchemasNamed(db, loc[p].call[2]) # {}
        /\ \E i \in DOMAIN issued : issued[i][1] = TableId.Schemas

\* The schema row a rename call addresses, in store d (the empty set when
\* there is none).
RenameTarget(d, call) ==
    IF call[1] = "rename_schema"
    THEN SchemasNamed(d, call[2])
    ELSE { r \in StoredIds(d, TableId.Schemas) : r = call[2] }

\* C7: a rename that gives a schema the name a different schema row already
\* holds fails and leaves every row and index entry unchanged.
C7_RenameToTakenNameRejected ==
    \A p \in Procs :
        (/\ pc[p] = "idle"
         /\ loc[p].call[1] \in {"rename_schema", "rename_schema_by_id"}
         /\ \E r \in RenameTarget(loc[p].db0, loc[p].call) :
                SchemasNamed(loc[p].db0, loc[p].call[3]) \ {r} # {})
        => (~loc[p].res.ok /\ db = loc[p].db0)

\* C8: after a kill between write operations and a reopening from the
\* remote store with the local directory absent, the store equals the store
\* as the last committed write operation left it.
C8_RecoversLastCommittedWrite ==
    phase = "recovered" => db = killed.db

\* C9: when a checkpoint has been published during the run and a run_upload
\* that started after the last write has returned Ok, the store reopened
\* from the remote store contains every row that was committed before the
\* kill.
C9_RecoveryContainsEveryRow ==
    (phase = "recovered" /\ remote.current # None /\ synced_seq = killed.seq)
    => \A k \in DOMAIN killed.db : k[1] = "Table" => k \in DOMAIN db

\* C10: the store reopened from the remote store is the snapshot named by
\* metastore-current with its log files replayed in ascending numeric order
\* of <min_seq>, each as one batch; every key has the value of the
\* highest-sequence logged operation on it.
C10_ReplayInNumericOrder ==
    (phase = "recovered" /\ remote.current # None)
    => db = replay(remote, remote.current[1],
                   SetToSortedSeq(logs_of(remote, remote.current[1]))).db

\* The preconditions of swap_active_partitions on store d: some current id
\* is missing or not active, some new id is missing or already active, or
\* some compacted chunk id is missing.
SwapPreconditionFails(d, call) ==
    \/ \E i \in DOMAIN call[2] :
          \/ ~has_row(d, TableId.Partitions, call[2][i])
          \/ ~get_row(d, TableId.Partitions, call[2][i]).active
    \/ \E j \in DOMAIN call[3] :
          \/ ~has_row(d, TableId.Partitions, call[3][j])
          \/ get_row(d, TableId.Partitions, call[3][j]).active
    \/ \E k \in DOMAIN call[4] : ~has_row(d, TableId.Chunks, call[4][k])

\* C11: a swap_active_partitions call of which a precondition fails on the
\* store it starts from returns an error and leaves every partition and
\* chunk row as it was.
C11_SwapPreconditionFailureAborts ==
    \A p \in Procs :
        (/\ pc[p] = "idle"
         /\ loc[p].call[1] = "swap_active_partitions"
         /\ SwapPreconditionFails(loc[p].db0, loc[p].call))
        => (~loc[p].res.ok /\ db = loc[p].db0)

\* C12: once a swap_active_partitions call has succeeded, every current
\* partition is inactive, every new partition is active with the count, min
\* and max of the entry of new_active_min_max at its position, every
\* compacted chunk is inactive, and all of it was written as one batch.
C12_SwapEffects ==
    \A p \in Procs :
        (/\ pc[p] = "idle"
         /\ loc[p].call[1] = "swap_active_partitions"
         /\ loc[p].res.ok)
        => LET call == loc[p].call
               part(id) == get_row(db, TableId.Partitions, id)
           IN /\ \A i \in DOMAIN call[2] : ~part(call[2][i]).active
              /\ \A j \in DOMAIN call[3] :
                    /\ has_row(db, TableId.Partitions, call[3][j])
                    /\ part(call[3][j]).active
                    /\ j \in DOMAIN call[5]
                    /\ part(call[3][j]).main_table_row_count = call[5][j][1]
                    /\ part(call[3][j]).min_value = call[5][j][2][1]
                    /\ part(call[3][j]).max_value = call[5][j][2][2]
              /\ \A k \in DOMAIN call[4] :
                    ~get_row(db, TableId.Chunks, call[4][k]).active
              /\ latest_seq = Len(SwapSeedBatches) + Len(updates)
              /\ updates[Len(updates)].entries = loc[p].pipe.batch
              /\ db = apply_entries(loc[p].db0, loc[p].pipe.batch)

\* Ids of the job rows of store d on (row_reference, job_type) of `job`.
JobsOn(d, job) ==
    { r \in StoredIds(d, TableId.Jobs) :
        /\ get_row(d, TableId.Jobs, r).row_reference = job.row_reference
        /\ get_row(d, TableId.Jobs, r).job_type = job.job_type }

\* C13: under any interleaving of job operations, concurrent add_job calls
\* included, the store holds at most one job row for any
\* (row_reference, job_type) pair.
C13_OneJobPerRowReference ==
    \A r \in StoredIds(db, TableId.Jobs) :
        Cardinality(JobsOn(db, get_row(db, TableId.Jobs, r))) <= 1

\* C14: a start_processing_job(node) call that hands out a job commits on a
\* store where that job is a Scheduled job of shard node, and leaves it
\* ProcessingBy(node): between two calls handing out the same job, its
\* status has been reset to Scheduled.
C14_JobHandedOutOnce ==
    [][\A p \in Procs :
          (/\ pc[p] = "write" /\ pc'[p] = "notify"
           /\ loc[p].call[1] = "start_processing_job"
           /\ loc[p].res.id # 0)
          => /\ has_row(db, TableId.Jobs, loc[p].res.id)
             /\ get_row(db, TableId.Jobs, loc[p].res.id).status = <<"Scheduled">>
             /\ get_row(db, TableId.Jobs, loc[p].res.id).shard_server = loc[p].call[2]
             /\ get_row(db', TableId.Jobs, loc[p].res.id).status
                   = <<"ProcessingBy", loc[p].call[2]>>]_vars

\* C15: add_job called, in sequence, for a (row_reference, job_type) that
\* already has a job returns "not added": one job row stays stored for the
\* pair, the store is unchanged, no id is taken and no event is staged.
\* Called for a pair without a job, a successful call stores its row.
C15_SecondAddJobIsNoop ==
    \A p \in Procs :
        (pc[p] = "idle" /\ loc[p].call[1] = "add_job")
        => IF JobsOn(loc[p].db0, loc[p].call[2]) # {}
           THEN /\ loc[p].res = Ok(0)
                /\ db = loc[p].db0
                /\ Cardinality(JobsOn(db, loc[p].call[2])) = 1
                /\ loc[p].ins = 0
                /\ loc[p].pipe = EmptyPipe
           ELSE loc[p].res.ok => JobsOn(db, loc[p].call[2]) = {loc[p].res.id}

\* C15 witness: an add_job has been committed under an issued id, and a
\* later add_job for the same pair has returned "not added".
C15_Witness ==
    \E p \in Procs :
        /\ pc[p] = "idle"
        /\ loc[p].call[1] = "add_job"
        /\ loc[p].res = Ok(0)
        /\ JobsOn(db, loc[p].call[2]) # {}
        /\ \E i \in DOMAIN issued : issued[i][1] = TableId.Jobs

\* C16: the step that ends a committed write operation has delivered every
\* event the operation staged to every registered listener, after what the
\* listener had received before and in the order of emission.
C16_EventsToEveryListener ==
    [][\A p \in Procs :
          (pc[p] = "notify" /\ pc'[p] = "idle")
          => \A l \in DOMAIN Listeners :
                received'[l] = received[l] \o loc[p].pipe.events]_vars

\* C17: of two committed operations with different batches that both await
\* their notification, the one that notifies its listeners first is the one
\* that committed first (the other one's batch is the last committed).
C17_EventsInCommitOrder ==
    [][\A p, q \in Procs :
          (/\ p # q
           /\ pc[p] = "notify" /\ pc[q] = "notify" /\ pc'[q] = "idle"
           /\ loc[p].pipe.events # <<>> /\ loc[q].pipe.events # <<>>
           /\ loc[p].pipe.batch # loc[q].pipe.batch)
          => updates[Len(updates)].entries = loc[p].pipe.batch]_vars

\* C18: when a listener does not accept an event of a committed operation,
\* the operation ends with an error, and its batch is and stays committed:
\* the step leaves the store as it is, and every operation that has ended
\* with that error has its batch in the change feed.
C18_ListenerFailureKeepsCommit ==
    /\ [](\A p \in Procs :
            (pc[p] = "idle" /\ loc[p].res.err = "SendError")
            => /\ loc[p].pipe.batch # <<>>
               /\ \E i \in DOMAIN updates : updates[i].entries = loc[p].pipe.batch)
    /\ [][\A p \in Procs :
            (/\ pc[p] = "notify" /\ pc'[p] = "idle"
             /\ loc[p].pipe.events # <<>>
             /\ closed # {})
            => /\ loc'[p].res = Err("SendError")
               /\ db' = db
               /\ latest_seq' = latest_seq
               /\ updates' = updates
               /\ db = apply_entries(db, loc[p].pipe.batch)]_vars

\* C18 witness: a create_schema has ended with the listener's error and its
\* row is stored under the id it was given.
C18_Witness ==
    \E p \in Procs :
        /\ pc[p] = "idle"
        /\ loc[p].call[1] = "create_schema"
        /\ loc[p].res.err = "SendError"
        /\ loc[p].ins # 0
        /\ has_row(db, TableId.Schemas, loc[p].ins)
        /\ get_row(db, TableId.Schemas, loc[p].ins).name = loc[p].call[2]

\* The stores committed since the change feed had n entries, oldest first:
\* the store as it was then, and the store after each later batch.
RECURSIVE StoresSince(_, _)
StoresSince(d, n) ==
    IF n >= Len(updates) THEN {d}
    ELSE {d} \cup StoresSince(apply_entries(d, updates[n + 1].entries), n + 1)

\* C19: a finished get_partition_for_compaction returns what its two lookups
\* return on one store: the store it started on, or the store after one of
\* the batches committed while it ran.
C19_ReadSeesWholeBatches ==
    \A p \in Procs :
        (pc[p] = "idle" /\ loc[p].call[1] = "get_partition_for_compaction")
        => \E d \in StoresSince(loc[p].db0, loc[p].feed0) :
              [res |-> loc[p].res, read |-> loc[p].read]
                 = partition_for_compaction(d, loc[p].call[2])

\* Ids of the rows of a table of store d whose field `field` is in `parents`.
ChildrenOf(d, table_id, field, parents) ==
    { r \in StoredIds(d, table_id) : get_row(d, table_id, r)[field] \in parents }

\* C20: the commit of drop_table(t) is one batch, and leaves the store
\* without the table row t, without an index row of table t, without a
\* partition row of one of those indexes, and without a chunk row of one of
\* those partitions.
C20_DropTableCascades ==
    [][\A p \in Procs :
          (/\ pc[p] = "write" /\ pc'[p] = "notify"
           /\ loc[p].call[1] = "drop_table")
          => LET t == loc[p].call[2]
                 ixs == ChildrenOf(db, TableId.Indexes, "table_id", {t})
                 parts == ChildrenOf(db, TableId.Partitions, "index_id", ixs)
             IN /\ db' = apply_entries(db, loc[p].pipe.batch)
                /\ latest_seq' = latest_seq + 1
                /\ ~has_row(db', TableId.Tables, t)
                /\ ChildrenOf(db', TableId.Indexes, "table_id", {t}) = {}
                /\ ChildrenOf(db', TableId.Partitions, "index_id", ixs) = {}
                /\ ChildrenOf(db', TableId.Chunks, "partition_id", parts) = {}]_vars

\* C21: after a successful create_table, the index stored for each index
\* definition has the columns the definition names, in the definition's
\* order, then the other columns of the table in the table's order, each
\* numbered by its position, and sort_key_size is the number of columns the
\* definition names.
C21_UserIndexColumns ==
    \A p \in Procs :
        (pc[p] = "idle" /\ loc[p].call[1] = "create_table" /\ loc[p].res.ok)
        => \A j \in DOMAIN loc[p].call[5] :
              LET cols == loc[p].call[4]
                  def == loc[p].call[5][j]
                  named == [k \in DOMAIN def.columns |->
                              CHOOSE c \in {cols[i] : i \in DOMAIN cols} :
                                  c.name = def.columns[k]]
                  rest(c) == \A k \in DOMAIN def.columns : def.columns[k] # c.name
                  all == named \o SelectSeq(cols, rest)
                  ix == get_row(db, TableId.Indexes,
                                CHOOSE r \in ChildrenOf(db, TableId.Indexes, "table_id",
                                                        {loc[p].res.id}) :
                                    get_row(db, TableId.Indexes, r).name = def.name)
              IN /\ ix.columns = [i \in DOMAIN all |->
                                     [all[i] EXCEPT !.column_index = i - 1]]
                 /\ ix.sort_key_size = Len(def.columns)

\* C22: after a successful create_table with k index definitions the table
\* has k+1 indexes; one of them is named "default", and it has the table's
\* columns in the table's order and sort_key_size their number; each index
\* has one partition, which is not active and has no min and no max.
C22_DefaultIndexAndPartitions ==
    \A p \in Procs :
        (pc[p] = "idle" /\ loc[p].call[1] = "create_table" /\ loc[p].res.ok)
        => LET ixs == ChildrenOf(db, TableId.Indexes, "table_id", {loc[p].res.id})
               defaults == { r \in ixs : get_row(db, TableId.Indexes, r).name = "default" }
           IN /\ Cardinality(ixs) = Len(loc[p].call[5]) + 1
              /\ Cardinality(defaults) = 1
              /\ \A r \in defaults :
                    /\ get_row(db, TableId.Indexes, r).columns = loc[p].call[4]
                    /\ get_row(db, TableId.Indexes, r).sort_key_size = Len(loc[p].call[4])
              /\ \A r \in ixs :
                    LET parts == ChildrenOf(db, TableId.Partitions, "index_id", {r})
                    IN /\ Cardinality(parts) = 1
                       /\ \A q \in parts :
                             get_row(db, TableId.Partitions, q) = NewPartition(r, FALSE)

\* C23: every table row's schema_id is the id of a stored schema row.
C23_TableHasItsSchema ==
    \A r \in StoredIds(db, TableId.Tables) :
        has_row(db, TableId.Schemas, get_row(db, TableId.Tables, r).schema_id)

\* C24: while the store has seen inserts only (no update and no delete),
\* every inserted row is read back under its id, and a scan of a table
\* returns the rows inserted into that table, by ascending id, and nothing
\* else.
C24_InsertedRowsReadBack ==
    LET entries == Concat(SubSeq(DropSeedBatches, 1, 2))
                   \o Concat([k \in DOMAIN updates |-> updates[k].entries])
        rows == { entries[k] : k \in { j \in DOMAIN entries :
                                        entries[j][2][1] = "Table" } }
        inserts_only ==
            /\ \A k \in DOMAIN entries : entries[k][1] = "Put"
            /\ \A e, f \in rows : e[2] = f[2] => e = f
    IN (inserts_only /\ \A p \in Procs : pc[p] = "idle")
       => /\ \A e \in rows :
                /\ has_row(db, e[2][2], e[2][3])
                /\ get_row(db, e[2][2], e[2][3]) = e[3]
          /\ \A t \in {TableId.Schemas, TableId.Tables, TableId.Indexes,
                       TableId.Partitions} :
                LET ids == SetToSortedSeq({ e[2][3] : e \in { f \in rows : f[2][2] = t } })
                IN all_rows(db, t) =
                      [i \in DOMAIN ids |->
                          [id |-> ids[i],
                           row |-> (CHOOSE e \in rows :
                                       e[2][2] = t /\ e[2][3] = ids[i])[3]]]

\* C24 witness: after inserts only, the store holds two schemas, a table
\* and two indexes with a partition each.
C24_Witness ==
    /\ \A p \in Procs : pc[p] = "idle"
    /\ \A k \in DOMAIN updates :
          \A j \in DOMAIN updates[k].entries : updates[k].entries[j][1] = "Put"
    /\ Len(all_rows(db, TableId.Schemas)) = 2
    /\ Len(all_rows(db, TableId.Tables)) = 1
    /\ Len(all_rows(db, TableId.Indexes)) = 2
    /\ Len(all_rows(db, TableId.Partitions)) = 2

\* C25: a committed delete of a schema leaves no row under its id and no
\* entry of the row in the index (no lookup of the deleted row's name
\* returns its id); a delete by an id that has no row fails with NotFound
\* and leaves the store as it is.
C25_DeleteRemovesRowAndIndex ==
    \A p \in Procs :
        (pc[p] = "idle" /\ loc[p].call[1] \in {"delete_schema", "delete_schema_by_id"})
        => /\ loc[p].res.ok =>
                /\ ~has_row(db, TableId.Schemas, loc[p].res.id)
                /\ \A i \in DOMAIN get_row_ids_by_index(db, TableId.Schemas, 1,
                        StrBytes(get_row(loc[p].db0, TableId.Schemas, loc[p].res.id).name)) :
                      get_row_ids_by_index(db, TableId.Schemas, 1,
                        StrBytes(get_row(loc[p].db0, TableId.Schemas, loc[p].res.id).name))[i]
                         # loc[p].res.id
                /\ \A k \in DOMAIN db : k[1] = "SecondaryIndex" /\ k[2] = index_id(TableId.Schemas, 1)
                                        => k[4] # loc[p].res.id
           /\ (loc[p].call[1] = "delete_schema_by_id"
               /\ ~has_row(loc[p].db0, TableId.Schemas, loc[p].call[2]))
              => loc[p].res = Err("NotFound") /\ db = loc[p].db0

\* C25 witness: a schema was inserted under an id, a delete of that id was
\* committed, and a second delete of the id has failed with NotFound.
C25_Witness ==
    \E p \in Procs :
        /\ pc[p] = "idle"
        /\ loc[p].call[1] = "delete_schema_by_id"
        /\ loc[p].res = Err("NotFound")
        /\ \E i \in DOMAIN issued : issued[i] = <<TableId.Schemas, loc[p].call[2]>>
        /\ \E k \in DOMAIN updates :
              \E j \in DOMAIN updates[k].entries :
                 updates[k].entries[j] = Delete(TableKey(TableId.Schemas, loc[p].call[2]))

\* C26: a create_schema is rejected with UniqueViolation when a stored
\* schema has its name, and only then: a stored schema whose name has the
\* same hash and other bytes does not reject it, and both rows are stored.
\* A lookup of a name through the index returns the rows with that name.
C26_HashCollisionsResolved ==
    /\ \A n \in {"a", "c"} :
          get_row_ids_by_index(db, TableId.Schemas, 1, StrBytes(n))
             = SetToSortedSeq(SchemasNamed(db, n))
    /\ \A p \in Procs :
          (pc[p] = "idle" /\ loc[p].call[1] = "create_schema")
          => IF SchemasNamed(loc[p].db0, loc[p].call[2]) # {}
             THEN loc[p].res = Err("UniqueViolation")
             ELSE /\ loc[p].res.err # "UniqueViolation"
                  /\ loc[p].res.ok =>
                        /\ SchemasNamed(db, loc[p].call[2]) = {loc[p].res.id}
                        /\ \A n \in {"a", "c"} :
                              SchemasNamed(db, n) = SchemasNamed(loc[p].db0, n)
                                  \cup (IF n = loc[p].call[2] THEN {loc[p].res.id} ELSE {})

\* C26 witness: schemas "a" and "c", whose names have the same hash, are
\* both stored, and a further create_schema("c") has been rejected.
C26_Witness ==
    /\ hash_bytes(StrBytes("a")) = hash_bytes(StrBytes("c"))
    /\ SchemasNamed(db, "a") # {}
    /\ SchemasNamed(db, "c") # {}
    /\ \E p \in Procs :
          /\ pc[p] = "idle"
          /\ loc[p].call = <<"create_schema", "c", FALSE>>
          /\ loc[p].res = Err("UniqueViolation")

\* C27: create_schema of a name that a stored schema has returns that
\* schema's row when if_not_exists is set, and fails with UniqueViolation
\* when it is not; either way the store is left as it was, nothing is
\* staged and no id is taken.
C27_CreateSchemaIfNotExists ==
    \A p \in Procs :
        (/\ pc[p] = "idle"
         /\ loc[p].call[1] = "create_schema"
         /\ SchemasNamed(loc[p].db0, loc[p].call[2]) # {})
        => /\ db = loc[p].db0
           /\ loc[p].pipe = EmptyPipe
           /\ loc[p].ins = 0
           /\ IF loc[p].call[3]
              THEN /\ loc[p].res.ok
                   /\ loc[p].res.id \in SchemasNamed(loc[p].db0, loc[p].call[2])
              ELSE loc[p].res = Err("UniqueViolation")

C29_BatchesEventuallyUploaded ==
    /\ SF_vars(UploadLog)
          => \A n \in 1..(MaxSeqDur) :
                (\E i \in DOMAIN updates : updates[i].seq = n)
                   ~> (last_upload_seq >= n \/ ~upload_loop_enabled)
    /\ [][(upc \in {"log", "snapshot", "retention", "pointer"})
             => (upc' # "returned")]_vars

\* C29 witness: a batch committed in this run is covered by last_upload_seq
\* while the loop is enabled, the task being back at the head of the loop.
C29_Witness ==
    /\ upload_loop_enabled
    /\ upc = "idle"
    /\ latest_seq > 0
    /\ last_upload_seq = latest_seq

\* C30: once run_upload_loop has observed the flag as false it has returned
\* and begins nothing again; and once the flag is false the loop
\* eventually returns.
C30_UploadLoopStops ==
    /\ [][(upc = "returned") => (upc' = "returned" /\ ~upload_loop_enabled)]_vars
    /\ (~upload_loop_enabled) ~> (upc = "returned")

\* C30 witness: the loop has returned after stop_processing_loops.
C30_Witness ==
    /\ ~upload_loop_enabled
    /\ upc = "returned"
    /\ last_upload_seq > 0

\* C31: decoding the bytes produced by encoding a RowKey yields that RowKey.
C31_DecodeEncodeIsIdentity ==
    codec.pos = "decoded" => codec.out = codec.key

\* C31 witness: an index entry whose secondary key has two bytes, the tag of
\* an index entry among them, has been encoded and decoded.
C31_Witness ==
    /\ codec.pos = "decoded"
    /\ codec.key[1] = "SecondaryIndex"
    /\ Len(codec.key[3]) = 2
    /\ codec.key[3][1] = 3
    /\ Len(codec.bytes) = 15

\* C32: last_upload_seq changes only in the step that uploads a log file, to
\* the highest sequence number of the batches in that file, which are all the
\* batches after the previous last_upload_seq that were committed when the
\* file was written; a failed write or upload of the log changes neither
\* last_upload_seq nor the remote store, and the next file is written from
\* the same last_upload_seq; and without a batch after last_upload_seq no
\* file is uploaded.
C32_LastUploadSeqFollowsLog ==
    [][LET in_file == SelectSeq(updates, LAMBDA u : /\ u.seq > last_upload_seq
                                                     /\ u.seq <= last_upload_seq')
       IN /\ (last_upload_seq' # last_upload_seq)
                => /\ upc = "log" /\ upc' = "check"
                   /\ in_file # <<>>
                   /\ in_file[Len(in_file)].seq = last_upload_seq'
                   /\ <<last_checkpoint_time, in_file[1].seq>> \in DOMAIN remote'.logs
                   /\ remote'.logs[<<last_checkpoint_time, in_file[1].seq>>]
                         = Concat([i \in DOMAIN in_file |-> in_file[i].entries])
          /\ (upc = "log" /\ upc' = "idle")
                => /\ last_upload_seq' = last_upload_seq
                   /\ remote' = remote
          /\ (upc = "updates" /\ upc' # upc /\ get_updates_since(last_upload_seq) = <<>>)
                => /\ upc' = "check"
                   /\ remote' = remote
          /\ (upc = "updates" /\ upc' = "log")
                => /\ uloc'.min = get_updates_since(last_upload_seq)[1].seq
                   /\ uloc'.max = latest_seq
          /\ (DOMAIN remote'.logs \ DOMAIN remote.logs # {})
                => upc = "log" /\ last_upload_seq' = uloc.max]_vars

\* C32 witness: a log file has been uploaded whose batches were committed
\* while a later batch was being written, and last_upload_seq is its highest
\* sequence number, below the DB's.
C32_Witness ==
    /\ upc = "check"
    /\ remote.logs # EmptyRemote.logs
    /\ last_upload_seq > 0
    /\ last_upload_seq < latest_seq

\* C33: metastore-current changes only in the step after the retention step,
\* to the name of the snapshot of last_checkpoint_time, every file of which
\* has been uploaded; a checkpoint whose snapshot upload fails leaves
\* metastore-current as it was.
C33_PointerAfterSnapshot ==
    [][/\ (remote'.current # remote.current)
            => /\ upc = "pointer"
               /\ remote'.current = Some(last_checkpoint_time)
               /\ last_checkpoint_time \in DOMAIN remote.snaps
               /\ last_checkpoint_time \notin remote.partial
       /\ (upc = "snapshot" /\ upc' \notin {"snapshot", "retention"})
            => remote'.current = remote.current
       /\ (upc' = "retention" /\ upc # upc')
            => last_checkpoint_time \in DOMAIN remote'.snaps]_vars

\* C33 witness: the snapshot of a checkpoint was uploaded in part, the call
\* has ended, and metastore-current is still absent.
C33_Witness ==
    /\ upc = "idle"
    /\ last_checkpoint_time \in remote.partial
    /\ remote.snaps = EmptyRemote.snaps
    /\ remote.current = None

\* C34: the events a successful drop_table closure has staged come in pairs,
\* one pair for each row it deletes: Delete(table_id, id) and right after it
\* the Delete<Kind> event of that table with the row the closure read; the
\* pair of a chunk comes before the pair of its partition, that of a
\* partition before the pair of its index, and the pair of the table is last.
C34_DeleteEventsInOrder ==
    [][\A p \in Procs :
          (/\ pc[p] = "closure" /\ pc'[p] = "write"
           /\ loc[p].call[1] = "drop_table"
           /\ loc'[p].res.ok)
          => LET ev == loc'[p].pipe.events
                 n == Len(ev) \div 2
                 tbl(i) == ev[2 * i - 1][2]
                 id(i) == ev[2 * i - 1][3]
                 row(i) == get_row(db, tbl(i), id(i))
                 parent(i, j, t, u, field) ==
                     /\ tbl(i) = t /\ tbl(j) = u /\ row(i)[field] = id(j)
             IN /\ Len(ev) = 2 * n
                /\ n = Cardinality({ k \in DOMAIN loc'[p].pipe.batch :
                                       /\ loc'[p].pipe.batch[k][1] = "Delete"
                                       /\ loc'[p].pipe.batch[k][2][1] = "Table" })
                /\ \A i \in 1..n :
                      /\ ev[2 * i - 1] = <<"Delete", tbl(i), id(i)>>
                      /\ has_row(db, tbl(i), id(i))
                      /\ Delete(TableKey(tbl(i), id(i)))
                            \in { loc'[p].pipe.batch[k] : k \in DOMAIN loc'[p].pipe.batch }
                      /\ ev[2 * i] = delete_event(tbl(i), id(i), row(i))
                /\ \A i, j \in 1..n :
                      (\/ parent(i, j, TableId.Chunks, TableId.Partitions, "partition_id")
                       \/ parent(i, j, TableId.Partitions, TableId.Indexes, "index_id")
                       \/ parent(i, j, TableId.Indexes, TableId.Tables, "table_id"))
                      => i < j
                /\ n > 0 /\ tbl(n) = TableId.Tables /\ id(n) = loc[p].call[2]]_vars

\* C34 witness: a drop_table closure has staged the events of a chunk, of its
\* partition, of its index and of the table.
C34_Witness ==
    \E p \in Procs :
        /\ pc[p] = "write"
        /\ loc[p].call[1] = "drop_table"
        /\ loc[p].res.ok
        /\ Len(loc[p].pipe.events) >= 8
        /\ loc[p].pipe.events[1][2] = TableId.Chunks

\* C35: every stored row of a table has, in each index of the table, the
\* entry under the hash of its key, holding the bytes of its key, and no
\* other entry; and every entry of an index refers to a stored row.
C35_IndexesAgreeWithRows ==
    \A t \in { TableId[f] : f \in DOMAIN TableId } :
        \A i \in DOMAIN indexes(t) :
            LET iid == index_id(t, indexes(t)[i].id)
                entries == { k \in DOMAIN db : k[1] = "SecondaryIndex" /\ k[2] = iid }
                key_of(r) == index_key_by(t, indexes(t)[i].id, get_row(db, t, r))
            IN /\ \A r \in StoredIds(db, t) :
                     /\ SecondaryIndexKey(iid, hash_bytes(key_of(r)), r) \in entries
                     /\ db[SecondaryIndexKey(iid, hash_bytes(key_of(r)), r)] = key_of(r)
               /\ \A k \in entries :
                     /\ k[4] \in StoredIds(db, t)
                     /\ k = SecondaryIndexKey(iid, hash_bytes(key_of(k[4])), k[4])

\* C36: when the killed process had uploaded the log of a batch, the store
\* that load_from_remote builds is the store of that process as it was after
\* some batch at or after last_upload_seq: it lacks no batch whose log upload
\* had completed.
C36_UploadedBatchesRecovered ==
    [][(/\ phase = "killed" /\ phase' = "recovered"
        /\ \E i \in DOMAIN updates : updates[i].seq <= last_upload_seq)
          => LET opened == apply_batches(EmptyDb, DurSeedBatches)
                 entries_to(n) == [i \in 1..n |-> updates[i].entries]
             IN \E n \in 0..Len(updates) :
                   /\ \A i \in DOMAIN updates :
                         updates[i].seq <= last_upload_seq => i <= n
                   /\ db' = apply_batches(opened, entries_to(n))]_vars

\* C37: while metastore-current exists, the snapshot it names is in the
\* remote store.
C37_PointerNamesStoredSnapshot ==
    remote.current # None => remote.current[1] \in DOMAIN remote.snaps

\* C38: a checkpoint step that fails leaves last_checkpoint_time at the value
\* it had before the step, which is earlier than the instant the step began:
\* after the failure last_checkpoint_time is earlier than the clock.
C38_FailedCheckpointKeepsTime ==
    [][(/\ upc \in {"snapshot", "retention", "pointer"}
        /\ upc' = "idle"
        /\ remote'.current = remote.current)
          => (last_checkpoint_time' < now')]_vars

\* C39: a chunk that a committed batch has deactivated is not returned by
\* get_chunks_by_partition on any later store.
C39_DeactivatedChunkStaysHidden ==
    \A i \in DOMAIN updates :
        \A k \in DOMAIN updates[i].entries :
            LET e == updates[i].entries[k]
            IN (/\ e[1] = "Put"
                /\ e[2][1] = "Table"
                /\ e[2][2] = TableId.Chunks
                /\ ~e[3].active)
                  => LET res == get_chunks_by_partition(db, e[3].partition_id)
                     IN res.ok => \A j \in DOMAIN res.rows : res.rows[j] # e[2][3]

\* C40: of two swap_active_partitions calls that name the same current
\* partition, at most one succeeds.
C40_OneSwapPerActivePartition ==
    \A p, q \in Procs :
        (/\ p # q
         /\ pc[p] = "idle" /\ loc[p].call[1] = "swap_active_partitions"
         /\ pc[q] = "idle" /\ loc[q].call[1] = "swap_active_partitions"
         /\ \E i \in DOMAIN loc[p].call[2], j \in DOMAIN loc[q].call[2] :
                loc[p].call[2][i] = loc[q].call[2][j])
        => ~(loc[p].res.ok /\ loc[q].res.ok)

====
